---- MODULE Spec2Model ----
(***************************************************************************)
(* aws-web: resourceService.GetResources with its bounded parallel         *)
(* all-regions aggregation, the CLI executor it calls and the error        *)
(* classifier isAuthError.                                                 *)
(*                                                                         *)
(* A Go string is a sequence of one-character strings, so that ToLower,    *)
(* Contains, TrimSpace, Join and concatenation are computed character by   *)
(* character as the Go runtime computes them.                              *)
(***************************************************************************)
EXTENDS Bags, FiniteSets, Integers, Sequences, TLC

\* ---------------------------------------------------------------- bounds

\* Most regions a describe-regions payload lists as usable.
MaxRegions == 2

\* The regions listed where the semaphore's capacity has to bind.
CapRegions == 6

\* The latest reading of the clock.
MaxTime == 3

\* The longest time to live a cache is made with.
MaxTTL == 2

\* The custom profiles the profile manager is asked to add.
MaxProfiles == 2

\* The requests the cached resource service gets.
MaxRequests == 2

\* The POST /api/cache/clear requests the server gets.
MaxClears == 1

\* The groups of the first period of a RECORD_TYPE answer.
MaxGroups == 2

\* The tokens of a raw command.
MaxTokens == 2

\* ------------------------------------------------- string literals of the code

AllSelector == <<"a", "l", "l">>
PhraseAuthFailure == <<"a", "u", "t", "h", "f", "a", "i", "l", "u", "r", "e">>
PhraseValidate == <<"n", "o", "t", " ", "a", "b", "l", "e", " ", "t", "o", " ", "v", "a", "l", "i", "d", "a", "t", "e", " ", "t", "h", "e", " ", "p", "r", "o", "v", "i", "d", "e", "d", " ", "a", "c", "c", "e", "s", "s", " ", "c", "r", "e", "d", "e", "n", "t", "i", "a", "l", "s">>
PhraseInvalidToken == <<"i", "n", "v", "a", "l", "i", "d", "c", "l", "i", "e", "n", "t", "t", "o", "k", "e", "n", "i", "d">>
PhraseEndpoint == <<"c", "o", "u", "l", "d", " ", "n", "o", "t", " ", "c", "o", "n", "n", "e", "c", "t", " ", "t", "o", " ", "t", "h", "e", " ", "e", "n", "d", "p", "o", "i", "n", "t", " ", "u", "r", "l">>
CliErrorPrefix == <<"a", "w", "s", " ", "c", "l", "i", " ", "e", "r", "r", "o", "r", ":", " ">>
SkippedPrefix == <<"S", "k", "i", "p", "p", "e", "d", " ", "r", "e", "g", "i", "o", "n", "s", " ", "d", "u", "e", " ", "t", "o", " ", "a", "u", "t", "h", "e", "n", "t", "i", "c", "a", "t", "i", "o", "n", " ", "e", "r", "r", "o", "r", "s", ":", " ">>
JoinSep == <<",", " ">>
NotOptedIn == <<"n", "o", "t", "-", "o", "p", "t", "e", "d", "-", "i", "n">>
KeyEC2 == <<"e", "c", "2">>
KeyVPC == <<"v", "p", "c">>
KeyEIP == <<"e", "i", "p">>
KeyElasticIP == <<"e", "l", "a", "s", "t", "i", "c", "i", "p">>
KeyElasticIPs == <<"e", "l", "a", "s", "t", "i", "c", "-", "i", "p", "s">>
KeyS3 == <<"s", "3">>
KeyRekognition == <<"r", "e", "k", "o", "g", "n", "i", "t", "i", "o", "n">>
KeyRDS == <<"r", "d", "s">>
ParsePrefix == <<"f", "a", "i", "l", "e", "d", " ", "t", "o", " ", "p", "a", "r", "s", "e", " ">>
ParseSuffix == <<" ", "o", "u", "t", "p", "u", "t", ":", " ">>
OpDescribeInstances == <<"d", "e", "s", "c", "r", "i", "b", "e", "-", "i", "n", "s", "t", "a", "n", "c", "e", "s">>
OpDescribeVpcs == <<"d", "e", "s", "c", "r", "i", "b", "e", "-", "v", "p", "c", "s">>
OpDescribeAddresses == <<"d", "e", "s", "c", "r", "i", "b", "e", "-", "a", "d", "d", "r", "e", "s", "s", "e", "s">>
OpListBuckets == <<"l", "i", "s", "t", "-", "b", "u", "c", "k", "e", "t", "s">>
OpListCollections == <<"l", "i", "s", "t", "-", "c", "o", "l", "l", "e", "c", "t", "i", "o", "n", "s">>
OpDescribeDBInstances == <<"d", "e", "s", "c", "r", "i", "b", "e", "-", "d", "b", "-", "i", "n", "s", "t", "a", "n", "c", "e", "s">>
OpDescribeRegions == <<"d", "e", "s", "c", "r", "i", "b", "e", "-", "r", "e", "g", "i", "o", "n", "s">>
NotImplementedPrefix == <<"R", "e", "s", "o", "u", "r", "c", "e", " ", "d", "r", "i", "l", "l", "d", "o", "w", "n", " ", "n", "o", "t", " ", "i", "m", "p", "l", "e", "m", "e", "n", "t", "e", "d", " ", "f", "o", "r", " ", "s", "e", "r", "v", "i", "c", "e", " ">>
ArgRegion == <<"-", "-", "r", "e", "g", "i", "o", "n">>
ArgAllRegions == <<"-", "-", "a", "l", "l", "-", "r", "e", "g", "i", "o", "n", "s">>
SvcS3Api == <<"s", "3", "a", "p", "i">>
ArgOutput == <<"-", "-", "o", "u", "t", "p", "u", "t">>
ArgJSON == <<"j", "s", "o", "n">>
Quote == <<"\"">>
UpperLetters == <<"A", "B", "C", "D", "E", "F", "G", "H", "I", "J", "K", "L", "M", "N", "O", "P", "Q", "R", "S", "T", "U", "V", "W", "X", "Y", "Z">>
LowerLetters == <<"a", "b", "c", "d", "e", "f", "g", "h", "i", "j", "k", "l", "m", "n", "o", "p", "q", "r", "s", "t", "u", "v", "w", "x", "y", "z">>

\* ------------------------------- texts the environment (aws, os/exec, json) produces

TxtKilled == <<"s", "i", "g", "n", "a", "l", ":", " ", "k", "i", "l", "l", "e", "d">>
TxtCanceled == <<"c", "o", "n", "t", "e", "x", "t", " ", "c", "a", "n", "c", "e", "l", "e", "d">>
TxtExitStatus == <<"e", "x", "i", "t", " ", "s", "t", "a", "t", "u", "s", " ", "2", "5", "5">>
TxtAuthFailure == <<"A", "n", " ", "e", "r", "r", "o", "r", " ", "o", "c", "c", "u", "r", "r", "e", "d", " ", "(", "A", "u", "t", "h", "F", "a", "i", "l", "u", "r", "e", ")">>
TxtEndpoint == <<"C", "o", "u", "l", "d", " ", "n", "o", "t", " ", "c", "o", "n", "n", "e", "c", "t", " ", "t", "o", " ", "t", "h", "e", " ", "e", "n", "d", "p", "o", "i", "n", "t", " ", "U", "R", "L">>
TxtInternal == <<"i", "n", "t", "e", "r", "n", "a", "l", " ", "s", "e", "r", "v", "e", "r", " ", "e", "r", "r", "o", "r">>
TxtJSON == <<"u", "n", "e", "x", "p", "e", "c", "t", "e", "d", " ", "e", "n", "d", " ", "o", "f", " ", "J", "S", "O", "N", " ", "i", "n", "p", "u", "t">>
TxtOptedIn == <<"o", "p", "t", "e", "d", "-", "i", "n">>
TxtNotOptedInMixed == <<"N", "o", "t", "-", "O", "p", "t", "e", "d", "-", "I", "n">>
TxtOptInNotRequired == <<"o", "p", "t", "-", "i", "n", "-", "n", "o", "t", "-", "r", "e", "q", "u", "i", "r", "e", "d">>
TxtInvalidToken == <<"I", "n", "v", "a", "l", "i", "d", "C", "l", "i", "e", "n", "t", "T", "o", "k", "e", "n", "I", "d">>
TxtValidate == <<"A", "W", "S", " ", "w", "a", "s", " ", "n", "o", "t", " ", "a", "b", "l", "e", " ", "t", "o", " ", "v", "a", "l", "i", "d", "a", "t", "e", " ", "t", "h", "e", " ", "p", "r", "o", "v", "i", "d", "e", "d", " ", "a", "c", "c", "e", "s", "s", " ", "c", "r", "e", "d", "e", "n", "t", "i", "a", "l", "s">>
TxtAuthUpper == <<"A", "U", "T", "H", "F", "A", "I", "L", "U", "R", "E">>
TxtAuthSpaced == <<"A", "u", "t", "h", " ", "F", "a", "i", "l", "u", "r", "e">>
TxtAuthShort == <<"A", "u", "t", "h", "F", "a", "i", "l", "u", "r">>
TxtEndpointShort == <<"c", "o", "u", "l", "d", " ", "n", "o", "t", " ", "c", "o", "n", "n", "e", "c", "t", " ", "t", "o", " ", "t", "h", "e", " ", "e", "n", "d", "p", "o", "i", "n", "t">>
TxtTokenShort == <<"I", "n", "v", "a", "l", "i", "d", "C", "l", "i", "e", "n", "t", "T", "o", "k", "e", "n">>
TxtValidateShort == <<"n", "o", "t", " ", "a", "b", "l", "e", " ", "t", "o", " ", "v", "a", "l", "i", "d", "a", "t", "e", " ", "t", "h", "e", " ", "p", "r", "o", "v", "i", "d", "e", "d", " ", "a", "c", "c", "e", "s", "s", " ", "c", "r", "e", "d", "e", "n", "t", "i", "a", "l">>
TxtAccessDenied == <<"A", "c", "c", "e", "s", "s", "D", "e", "n", "i", "e", "d">>
KeyLambda == <<"l", "a", "m", "b", "d", "a">>
KeyEC2Upper == <<"E", "C", "2">>
SelAllUpper == <<"A", "L", "L">>
SelAllMixed == <<"A", "l", "l">>
SelRegion == <<"u", "s", "-", "e", "a", "s", "t", "-", "1">>
RegionLetters == <<"a", "b", "c", "d", "e", "f", "g", "h", "i", "j">>
TxtSuffix == <<" ", "(", "r", "e", "q", " ", "1", ")">>

\* ------------------------------------------------------- Go string functions

\* unicode.ToLower on one character (the texts here are ASCII).
LowerChar(c) ==
    IF \E i \in 1..Len(UpperLetters) : UpperLetters[i] = c
    THEN LowerLetters[CHOOSE i \in 1..Len(UpperLetters) : UpperLetters[i] = c]
    ELSE c

\* strings.ToLower
ToLower(s) ==
    IF Len(s) = 0 THEN <<>> ELSE [i \in 1..Len(s) |-> LowerChar(s[i])]

\* A text in upper case.
ToUpper(s) ==
    IF Len(s) = 0 THEN <<>>
    ELSE [i \in 1..Len(s) |->
            IF \E j \in 1..Len(LowerLetters) : LowerLetters[j] = s[i]
            THEN UpperLetters[CHOOSE j \in 1..Len(LowerLetters) : LowerLetters[j] = s[i]]
            ELSE s[i]]

\* strings.Contains: substr occurs in s at some offset (the empty substr always does).
Contains(s, substr) ==
    \E i \in 0..(Len(s) - Len(substr)) : SubSeq(s, i + 1, i + Len(substr)) = substr

\* strings.EqualFold on ASCII text.
EqualFold(s, t) ==
    ToLower(s) = ToLower(t)

IsSpace(c) ==
    c \in {" ", "\t", "\n", "\r"}

\* strings.TrimSpace
TrimSpace(s) ==
    LET keep == {i \in 1..Len(s) : ~IsSpace(s[i])}
        first == CHOOSE i \in keep : \A j \in keep : i <= j
        last == CHOOSE i \in keep : \A j \in keep : j <= i
    IN  IF keep = {} THEN <<>> ELSE SubSeq(s, first, last)

RECURSIVE Join(_, _)
\* strings.Join
Join(elems, sep) ==
    IF Len(elems) = 0 THEN <<>>
    ELSE IF Len(elems) = 1 THEN elems[1]
    ELSE elems[1] \o sep \o Join(Tail(elems), sep)

\* ------------------------------------------------------------------ errors

\* The nil error.
Nil ==
    [nil |-> TRUE, msg |-> <<>>]

\* A non-nil error whose Error() is msg (errors.New, fmt.Errorf).
Err(msg) ==
    [nil |-> FALSE, msg |-> msg]

\* isAuthError without strings.ToLower.
isAuthErrorNoLower(err) ==
    IF err = Nil THEN FALSE
    ELSE LET msg == err.msg
         IN  \/ Contains(msg, PhraseAuthFailure)
             \/ Contains(msg, PhraseValidate)
             \/ Contains(msg, PhraseInvalidToken)
             \/ Contains(msg, PhraseEndpoint)

\* isAuthError: the error looks like a credential error or an unavailable
\* regional endpoint, which the all-regions aggregation skips.
isAuthError(err) ==
    IF err = Nil THEN FALSE
    ELSE LET msg == ToLower(err.msg)
         IN  \/ Contains(msg, PhraseAuthFailure)
             \/ Contains(msg, PhraseValidate)
             \/ Contains(msg, PhraseInvalidToken)
             \/ Contains(msg, PhraseEndpoint)

\* ------------------------------------------------------------ the executor

\* What running "aws ..." did, as cmd.Run observes it: failed (cmd.Run returned
\* an error), errText (that error's text), stderr and stdout (what the process
\* wrote; stdout is valid JSON holding items, or it is not).
Proc(failed, errText, stderr, valid, items) ==
    [failed |-> failed, errText |-> errText, stderr |-> stderr,
     valid |-> valid, items |-> items]

\* The process exited 0 and printed the JSON document holding items.
ProcOK(items) ==
    Proc(FALSE, <<>>, <<>>, TRUE, items)

\* The process exited 0 and printed something json.Unmarshal rejects.
ProcGarbage ==
    Proc(FALSE, <<>>, <<>>, FALSE, <<>>)

\* The process exited non-zero after writing text (and a newline) to stderr.
ProcFail(text) ==
    Proc(TRUE, TxtExitStatus, IF text = <<>> THEN <<>> ELSE <<"\n">> \o text \o <<"\n">>,
         FALSE, <<>>)

\* exec.CommandContext killed the process when ctx was done; soFar is what the
\* process had written to stderr by then.
ProcKilled(soFar) ==
    Proc(TRUE, TxtKilled, IF soFar = <<>> THEN <<>> ELSE <<"\n">> \o soFar \o <<"\n">>,
         FALSE, <<>>)

\* ctx was already done when cmd.Run started: no process, Run returns ctx.Err().
ProcNotStarted ==
    Proc(TRUE, TxtCanceled, <<>>, FALSE, <<>>)

\* The argument list the aws process gets: RunJSON always asks for JSON.
RunJSONArgs(args) ==
    args \o <<ArgOutput, ArgJSON>>

\* CLIExecutor.RunJSON from cmd.Run's return on: (stdout, nil), or an error
\* whose text is stderr, trimmed, or cmd.Run's error text when stderr is empty.
RunJSON(proc) ==
    IF proc.failed
    THEN LET errMsg == IF TrimSpace(proc.stderr) = <<>>
                       THEN proc.errText
                       ELSE TrimSpace(proc.stderr)
         IN  [out |-> [valid |-> FALSE, items |-> <<>>],
              err |-> Err(CliErrorPrefix \o errMsg)]
    ELSE [out |-> [valid |-> proc.valid, items |-> proc.items], err |-> Nil]

\* ------------------------------------------------------ the resource service

\* types.ServiceResources{}: the zero value.
EmptyResources ==
    [Service |-> <<>>, Records |-> <<>>, Message |-> <<>>]

\* The resource kinds GetResources knows: the aws command that lists one, the
\* name in its parse error, the Service field of its result, whether the
\* command takes a region.
KindEC2 ==
    [cmd |-> <<KeyEC2, OpDescribeInstances>>, service |-> KeyEC2, regional |-> TRUE]

KindVPC ==
    [cmd |-> <<KeyEC2, OpDescribeVpcs>>, service |-> KeyVPC, regional |-> TRUE]

KindEIP ==
    [cmd |-> <<KeyEC2, OpDescribeAddresses>>, service |-> KeyEIP, regional |-> TRUE]

KindS3 ==
    [cmd |-> <<SvcS3Api, OpListBuckets>>, service |-> KeyS3, regional |-> FALSE]

KindRekognition ==
    [cmd |-> <<KeyRekognition, OpListCollections>>, service |-> KeyRekognition,
     regional |-> TRUE]

KindRDS ==
    [cmd |-> <<KeyRDS, OpDescribeDBInstances>>, service |-> KeyRDS, regional |-> TRUE]

\* The default case of GetResources' switch.
NoKind ==
    [cmd |-> <<>>, service |-> <<>>, regional |-> FALSE]

\* The switch of resourceService.GetResources on the lower-cased service.
Dispatch(key) ==
    CASE key = KeyEC2 -> KindEC2
      [] key = KeyVPC -> KindVPC
      [] key \in {KeyEIP, KeyElasticIP, KeyElasticIPs} -> KindEIP
      [] key = KeyS3 -> KindS3
      [] key = KeyRekognition -> KindRekognition
      [] key = KeyRDS -> KindRDS
      [] OTHER -> NoKind

\* The default case's result: no executor call, a message naming the service.
NotImplemented(svc) ==
    [Service |-> svc, Records |-> <<>>,
     Message |-> NotImplementedPrefix \o Quote \o svc \o Quote]

\* The arguments of a kind's listing command for one region ("" = the default).
SingleRegionArgs(kind, rgn) ==
    kind.cmd \o (IF kind.regional /\ rgn # <<>> THEN <<ArgRegion, rgn>> ELSE <<>>)

\* The projection of the raw items of one region into records tagged with it.
Project(kind, rgn, items) ==
    IF Len(items) = 0 THEN <<>>
    ELSE [i \in 1..Len(items) |->
            [id |-> items[i], region |-> IF kind.regional THEN rgn ELSE <<>>]]

\* get<Kind>SingleRegion from RunJSON's return on: the executor's error
\* unchanged, or a parse error, or the projected records.
SingleRegion(kind, rgn, run) ==
    IF run.err # Nil THEN [res |-> EmptyResources, err |-> run.err]
    ELSE IF ~run.out.valid
    THEN [res |-> EmptyResources,
          err |-> Err(ParsePrefix \o kind.cmd[2] \o ParseSuffix \o TxtJSON)]
    ELSE [res |-> [Service |-> kind.service,
                   Records |-> Project(kind, rgn, run.out.items),
                   Message |-> <<>>],
          err |-> Nil]

\* The loop of listRegions keeping every entry of the payload.
UsableRegionsUnfiltered(entries) ==
    [i \in 1..Len(entries) |-> entries[i].RegionName]

RECURSIVE UsableRegions(_)
\* The loop of listRegions: the names of the entries that have one and are
\* not flagged not-opted-in, in the payload's order.
UsableRegions(entries) ==
    IF Len(entries) = 0 THEN <<>>
    ELSE LET r == Head(entries)
         IN  IF r.RegionName = <<>> \/ EqualFold(r.OptInStatus, NotOptedIn)
             THEN UsableRegions(Tail(entries))
             ELSE <<r.RegionName>> \o UsableRegions(Tail(entries))

\* listRegions from RunJSON's return on.
listRegionsLenient(run) ==
    IF run.err # Nil \/ ~run.out.valid THEN [regions |-> <<>>, err |-> Nil]
    ELSE [regions |-> UsableRegions(run.out.items), err |-> Nil]

listRegions(run) ==
    IF run.err # Nil THEN [regions |-> <<>>, err |-> run.err]
    ELSE IF ~run.out.valid
    THEN [regions |-> <<>>,
          err |-> Err(ParsePrefix \o OpDescribeRegions \o ParseSuffix \o TxtJSON)]
    ELSE [regions |-> UsableRegions(run.out.items), err |-> Nil]

\* const maxConcurrent = 5: the capacity of the semaphore channel.
maxConcurrent == 5

\* The message naming the last skipped region only.
SkippedMessageLastOnly(skippedRegions) ==
    IF Len(skippedRegions) > 0
    THEN SkippedPrefix \o skippedRegions[Len(skippedRegions)]
    ELSE <<>>

\* The message of an all-regions result: empty, or the skipped regions.
SkippedMessage(skippedRegions) ==
    IF Len(skippedRegions) > 0
    THEN SkippedPrefix \o Join(skippedRegions, JoinSep)
    ELSE <<>>

\* ---------------------------------------------------------- the environment

\* The name of the i-th region an account can list.
RegionName(i) ==
    <<RegionLetters[i]>>

\* A describe-regions document listing k usable regions among an entry with
\* no name and two entries that are not opted in.
RegionsPayload(k) ==
    LET usable == IF k = 0 THEN <<>>
                  ELSE [i \in 1..k |->
                          [RegionName |-> RegionName(i),
                           OptInStatus |-> IF i % 2 = 1 THEN TxtOptedIn
                                           ELSE TxtOptInNotRequired]]
    IN  <<[RegionName |-> <<>>, OptInStatus |-> TxtOptedIn]>>
        \o usable
        \o <<[RegionName |-> <<"y">>, OptInStatus |-> TxtNotOptedInMixed],
             [RegionName |-> <<"z">>, OptInStatus |-> NotOptedIn]>>

\* A describe-regions document that lists one region name n times:
\* listRegions keeps every entry, so n workers run.
RepeatedPayload(n) ==
    [i \in 1..n |-> [RegionName |-> RegionName(1), OptInStatus |-> TxtOptedIn]]

\* The raw resources a region holds: two equal ones in the first region, none
\* in the third, one elsewhere.
ItemsOf(rgn) ==
    IF rgn = RegionName(1) THEN <<1, 1>>
    ELSE IF rgn = RegionName(3) THEN <<>>
    ELSE <<2>>

\* What aws writes for a rejected credential or an unreachable endpoint.
AuthText(rgn) ==
    IF rgn = RegionName(1) THEN TxtAuthFailure ELSE TxtEndpoint

\* What aws writes for another failure in a region.
FatalText(rgn) ==
    TxtInternal \o <<" ">> \o rgn

\* What one aws process listing the resources of a region does, by the kind
\* of outcome: it lists them, prints no JSON, or fails with a credential or
\* endpoint error or with another error (in the second region, by printing
\* no JSON).
ProcOf(outcome, rgn) ==
    CASE outcome = "ok" -> ProcOK(ItemsOf(rgn))
      [] outcome = "garbage" -> ProcGarbage
      [] outcome = "auth" -> ProcFail(AuthText(rgn))
      [] outcome = "fatal" -> IF rgn = RegionName(2) THEN ProcGarbage
                              ELSE ProcFail(FatalText(rgn))

\* What a process killed on ctx.Done() can have done: written nothing yet, or
\* its error text already.
KillOutcomes(rgn) ==
    {ProcKilled(<<>>), ProcKilled(AuthText(rgn))}

\* The services a request can name.
ServiceInputs ==
    {KeyEC2, KeyEC2Upper, KeyVPC, KeyEIP, KeyElasticIP, KeyElasticIPs, KeyS3,
     KeyRekognition, KeyRDS, KeyLambda}

\* The all-regions requests tried: each regional kind, and "all" in each case.
AllRequests ==
    {<<KeyEC2, AllSelector>>, <<KeyVPC, SelAllUpper>>, <<KeyEIP, SelAllMixed>>,
     <<KeyElasticIPs, AllSelector>>, <<KeyRekognition, AllSelector>>,
     <<KeyRDS, AllSelector>>, <<KeyEC2Upper, SelAllUpper>>}

\* The other requests tried: a named region or the default one for every
\* service, and "all" for the services that have no regions.
SingleRequests ==
    (ServiceInputs \X {SelRegion, <<>>})
        \cup {<<KeyS3, AllSelector>>, <<KeyLambda, AllSelector>>}

\* The environments tried with a request: the account's describe-regions
\* document (up to MaxRegions usable regions for the ec2 request, one less
\* for the others) and the kinds of outcome its aws processes can have.
Environments(svc, rgn) ==
    IF <<svc, rgn>> \in AllRequests
    THEN {[shape |-> "mixed", usable |-> k, outcomes |-> {"ok", "auth", "fatal"}] :
            k \in 0..(IF svc = KeyEC2 THEN MaxRegions ELSE MaxRegions - 1)}
         \cup {[shape |-> "empty", usable |-> 0, outcomes |-> {"ok", "auth", "fatal"}]}
    ELSE {[shape |-> "empty", usable |-> 0,
           outcomes |-> {"ok", "garbage", "auth", "fatal"}]}

\* -------------------------------------------------------------------- state

VARIABLES
    env,         \* the account and its aws processes
    service,     \* GetResources' service argument
    region,      \* GetResources' region argument
    cancelled,   \* ctx.Done() is closed
    pc,          \* where the GetResources call is
    regions,     \* listRegions' result
    spawned,     \* how many workers the for loop has started
    wpc,         \* per worker: where it is
    wres,        \* per worker: what its get<Kind>SingleRegion call returned
    sem,         \* the number of elements in the semaphore channel
    wg,          \* the WaitGroup's counter
    resultsCh,   \* the buffered result channel's contents
    closed,      \* resultsCh is closed
    closer,      \* where the goroutine that waits and closes is
    all,         \* the coordinator's merged records
    skipped,     \* the coordinator's skipped regions
    ret,         \* what GetResources returned
    execCalls,   \* the bag of the calls of RunJSON
    stubbed,     \* the outcome the executor had, per call
    panicked,    \* a goroutine sent on the closed channel
    atCancel,    \* the workers whose call was outstanding when ctx was cancelled
    callNo,      \* which call of GetResources this is
    firstRet,    \* what the first call returned
    firstSkipped, \* the regions the first call skipped
    authErr,     \* isAuthError's argument
    authOut,     \* isAuthError's result
    ttl,         \* Cache.ttl
    now,         \* what time.Now() reads
    data,        \* Cache.data
    lastWrite,   \* per key: the last Set of it, or the Clear after that
    got,         \* what the last Cache.Get returned, and for which key
    profiles,    \* Manager.profiles
    activeID,    \* Manager.activeID
    systemAvailable, \* Manager.systemAvailable
    nextID,      \* Manager.nextID
    store,       \* the contents of the file at Manager.storePath
    mgrRet,      \* what the last call of the Manager returned
    reqs,        \* per request of cachedResourceService.GetResources: where it is
    storedBy,    \* per cache key: the request whose result the entry holds
    clears,      \* the cache clears completed
    endpoint,    \* which route the HTTP request is for
    resp,        \* what the handler wrote to the http.ResponseWriter
    sumRes,      \* per service of the summary: what its goroutine computed
    sumCh,       \* the summary's result channel: whose result, in order
    sumSeen,     \* the summary loop's counter i
    summaries,   \* the summary loop's summaries
    costIn,      \* what the two Cost Explorer queries answered
    overview,    \* the CostOverview fetchFromAWS derived
    rawReq,      \* the request to POST /api/commands/execute-raw
    rawResp,     \* what handleExecuteRawCommand answered
    rawCall      \* the arguments ExecuteRaw got, if it was called

vars ==
    <<env, service, region, cancelled, pc, regions, spawned, wpc, wres, sem, wg,
      resultsCh, closed, closer, all, skipped, ret, execCalls, stubbed,
      panicked, atCancel, callNo, firstRet, firstSkipped, authErr, authOut,
      ttl, now, data, lastWrite, got, profiles, activeID, systemAvailable,
      nextID, store, mgrRet, reqs, storedBy, clears, endpoint, resp, sumRes, sumCh,
      sumSeen, summaries, costIn, overview,
      rawReq, rawResp, rawCall>>

inputVars ==
    <<env, service, region>>

authVars ==
    <<authErr, authOut>>

twiceVars ==
    <<callNo, firstRet, firstSkipped>>

cacheVars ==
    <<ttl, now, data, lastWrite, got>>

\* The variables of the components around the resource service.
mgrVars ==
    <<profiles, activeID, systemAvailable, nextID, store, mgrRet>>

svcVars ==
    <<reqs, storedBy, clears>>

httpVars ==
    <<endpoint, resp, sumRes, sumCh, sumSeen, summaries>>

costVars ==
    <<costIn, overview>>

rawVars ==
    <<rawReq, rawResp, rawCall>>

restVars ==
    <<cacheVars, mgrVars, svcVars, httpVars, costVars, rawVars>>

\* The variables of a GetResources call.
aggVars ==
    <<env, service, region, cancelled, pc, regions, spawned, wpc, wres, sem, wg,
      resultsCh, closed, closer, all, skipped, ret, execCalls, stubbed,
      panicked, atCancel, callNo, firstRet, firstSkipped>>

\* Everything but the cache.
exceptCache ==
    <<aggVars, authVars, mgrVars, svcVars, httpVars, costVars, rawVars>>

\* Everything but the profile manager.
exceptMgr ==
    <<aggVars, authVars, cacheVars, svcVars, httpVars, costVars, rawVars>>

\* Everything but the cache, the profile manager and the cached service.
exceptSvc ==
    <<aggVars, authVars, httpVars, costVars, rawVars>>

\* Everything but the handlers of the resource routes.
exceptHttp ==
    <<aggVars, authVars, cacheVars, mgrVars, svcVars, costVars, rawVars>>

\* Everything but the cost derivation.
exceptCost ==
    <<aggVars, authVars, cacheVars, mgrVars, svcVars, httpVars, rawVars>>

\* Everything but the raw command route.
exceptRaw ==
    <<aggVars, authVars, cacheVars, mgrVars, svcVars, httpVars, costVars>>

\* A worker has not returned from its call yet.
NoResult ==
    [res |-> EmptyResources, err |-> Nil, returned |-> FALSE]

\* GetResources has not returned yet.
NoReturn ==
    [res |-> EmptyResources, err |-> Nil, returned |-> FALSE]

Returned(r) ==
    [res |-> r.res, err |-> r.err, returned |-> TRUE]

\* The state of a GetResources call that has not started.
AggIdle ==
    /\ cancelled = FALSE
    /\ pc = "idle"
    /\ regions = <<>>
    /\ spawned = 0
    /\ wpc = <<>>
    /\ wres = <<>>
    /\ sem = 0
    /\ wg = 0
    /\ resultsCh = <<>>
    /\ closed = FALSE
    /\ closer = "go"
    /\ all = <<>>
    /\ skipped = <<>>
    /\ ret = NoReturn
    /\ execCalls = EmptyBag
    /\ stubbed = <<>>
    /\ panicked = FALSE
    /\ atCancel = {}

\* No isAuthError call is modelled.
AuthIdle ==
    /\ authErr = Nil
    /\ authOut = "none"

\* cache.New(ttl) has just returned and nothing has been asked of the cache.
NoGet ==
    [key |-> <<>>, value |-> <<>>, found |-> FALSE, asked |-> FALSE, at |-> 0,
     last |-> [kind |-> "none", value |-> <<>>, time |-> 0]]

CacheIdle ==
    /\ ttl = 0
    /\ now = 0
    /\ data = <<>>
    /\ lastWrite = <<>>
    /\ got = NoGet

\* The components around the resource service are not in use.
\* The document saveLocked writes: nextId, activeId, profiles.
EmptyDocument ==
    [nextId |-> 0, activeId |-> <<>>, profiles |-> <<>>]

\* There is no file at the store path.
NoFile ==
    [exists |-> FALSE, valid |-> FALSE, doc |-> EmptyDocument]

\* No call of the Manager has returned.
NoInput ==
    [name |-> <<>>, accessKey |-> <<>>, secretKey |-> <<>>,
     sessionToken |-> <<>>, region |-> <<>>]

NoCall ==
    [op |-> "none", err |-> Nil, in |-> NoInput, valid |-> FALSE, id |-> <<>>]

\* What a call of AddAndActivateProfile returned, with its arguments and
\* with what sts get-caller-identity said, or would have said, of the keys.
Added(err, in, valid) ==
    [op |-> "add", err |-> err, in |-> in, valid |-> valid, id |-> <<>>]

\* What a call of SetActiveProfile returned, with its argument.
Selected(err, id) ==
    [op |-> "select", err |-> err, in |-> NoInput, valid |-> FALSE, id |-> id]

\* No profile manager: no profiles, no store file.
MgrIdle ==
    /\ profiles = <<>>
    /\ activeID = <<>>
    /\ systemAvailable = FALSE
    /\ nextID = 1
    /\ store = NoFile
    /\ mgrRet = NoCall

\* No request of the cached resource service.
SvcIdle ==
    /\ reqs = <<>>
    /\ storedBy = <<>>
    /\ clears = 0

\* Nothing written to the http.ResponseWriter.
NoResponse ==
    [written |-> FALSE, status |-> 0, Error |-> <<>>, Details |-> <<>>,
     Resources |-> EmptyResources, Summaries |-> <<>>]

\* The request is GET /api/services/{service}/resources, not answered yet.
HttpIdle ==
    /\ endpoint = "resources"
    /\ resp = NoResponse
    /\ sumRes = <<>>
    /\ sumCh = <<>>
    /\ sumSeen = 0
    /\ summaries = <<>>

\* No CostOverview has been derived.
NoOverview ==
    [derived |-> FALSE, Total |-> 0, NetTotal |-> 0, CreditsApplied |-> 0]

\* No cost query is made.
CostIdle ==
    /\ costIn = [failed |-> TRUE, periods |-> <<>>, fallback |-> <<>>]
    /\ overview = NoOverview

\* No raw command has been sent.
NoRawResponse ==
    [written |-> FALSE, status |-> 0, Error |-> <<>>, Command |-> <<>>]

NoRawCall ==
    [invoked |-> FALSE, args |-> <<>>]

RawIdle ==
    /\ rawReq = [configured |-> TRUE, args |-> <<>>]
    /\ rawResp = NoRawResponse
    /\ rawCall = NoRawCall

RestIdle ==
    /\ CacheIdle
    /\ MgrIdle
    /\ SvcIdle
    /\ HttpIdle
    /\ CostIdle
    /\ RawIdle

\* The first call of GetResources.
FirstCall ==
    /\ callNo = 1
    /\ firstRet = NoReturn
    /\ firstSkipped = <<>>

Init ==
    /\ \E rq \in AllRequests \cup SingleRequests :
         /\ service = rq[1]
         /\ region = rq[2]
         /\ env \in Environments(rq[1], rq[2])
    /\ AggIdle
    /\ FirstCall
    /\ AuthIdle
    /\ RestIdle

\* No call of the resource service is made at all.
AggUnused ==
    /\ service = KeyEC2
    /\ region = <<>>
    /\ env = [shape |-> "empty", usable |-> 0, outcomes |-> {"ok"}]
    /\ AggIdle
    /\ FirstCall

\* ------------------------------------------------------------------ actions

\* The kind the call is about.
TheKind ==
    Dispatch(ToLower(service))

\* Any named region taken for "all".
IsAllRegionsWhenNamed ==
    TheKind.regional /\ region # <<>>

\* getEC2Instances and its siblings: "all", in any case, selects all regions.
IsAllRegions ==
    TheKind.regional /\ ToLower(region) = AllSelector

ListRegionsArgs ==
    <<KeyEC2, OpDescribeRegions, ArgAllRegions>>

\* The describe-regions document of the account.
AccountDocument ==
    CASE env.shape = "mixed" -> RegionsPayload(env.usable)
      [] env.shape = "repeated" -> RepeatedPayload(env.usable)
      [] env.shape = "empty" -> <<>>

\* The calls of RunJSON a request makes: the enumeration, and the listing of
\* the resources of a region.
ListCall ==
    [list |-> TRUE, region |-> <<>>]

RegionCall(rgn) ==
    [list |-> FALSE, region |-> rgn]

\* The argument list RunJSON runs aws with in a call.
ArgsOf(call) ==
    RunJSONArgs(IF call.list THEN ListRegionsArgs
                ELSE SingleRegionArgs(TheKind, call.region))

\* What the account's describe-regions process can do, by the kind of
\* outcome, and the process of each kind.
ListOutcomes ==
    {"ok"} \cup (IF "fatal" \in env.outcomes THEN {"garbage", "auth", "fatal"} ELSE {})

ListProc(outcome) ==
    CASE outcome = "ok" -> ProcOK(AccountDocument)
      [] outcome = "garbage" -> ProcGarbage
      [] outcome = "auth" -> ProcFail(TxtAuthFailure)
      [] outcome = "fatal" -> ProcFail(TxtInternal)

\* The aws process of a call, by the kind of outcome.
ProcFor(call, outcome) ==
    IF call.list THEN ListProc(outcome) ELSE ProcOf(outcome, call.region)

\* The executor is a function of the call: asked again, it answers as
\* before.
Outcomes(call) ==
    IF call \in DOMAIN stubbed THEN {stubbed[call]}
    ELSE IF call.list THEN ListOutcomes
    ELSE env.outcomes

Remember(call, outcome) ==
    IF call \in DOMAIN stubbed THEN stubbed ELSE (call :> outcome) @@ stubbed

Logged(call) ==
    execCalls (+) SetToBag({call})

\* GetResources up to its first RunJSON call: the default case returns at
\* once; a call under a ctx that is already done fails without a process.
Call ==
    /\ pc = "idle"
    /\ IF TheKind = NoKind
       THEN /\ ret' = Returned([res |-> NotImplemented(service), err |-> Nil])
            /\ pc' = "done"
            /\ UNCHANGED execCalls
       ELSE IF IsAllRegions
       THEN /\ execCalls' = Logged(ListCall)
            /\ IF cancelled
               THEN /\ ret' = Returned([res |-> EmptyResources,
                                        err |-> listRegions(RunJSON(ProcNotStarted)).err])
                    /\ pc' = "done"
               ELSE /\ pc' = "list"
                    /\ UNCHANGED ret
       ELSE /\ execCalls' = Logged(RegionCall(region))
            /\ IF cancelled
               THEN /\ ret' = Returned(SingleRegion(TheKind, region, RunJSON(ProcNotStarted)))
                    /\ pc' = "done"
               ELSE /\ pc' = "single"
                    /\ UNCHANGED ret
    /\ UNCHANGED <<inputVars, cancelled, regions, spawned, wpc, wres, sem, wg,
                   resultsCh, closed, closer, all, skipped, stubbed, panicked,
                   atCancel, twiceVars, authVars, restVars>>

\* get<Kind>SingleRegion, called for the one region the request names (or
\* getS3Buckets): whatever the call gives is returned.
SingleReturn ==
    /\ pc = "single"
    /\ IF cancelled
       THEN /\ \E proc \in KillOutcomes(region) :
                 ret' = Returned(SingleRegion(TheKind, region, RunJSON(proc)))
            /\ UNCHANGED stubbed
       ELSE \E o \in Outcomes(RegionCall(region)) :
              /\ ret' = Returned(SingleRegion(TheKind, region,
                                              RunJSON(ProcFor(RegionCall(region), o))))
              /\ stubbed' = Remember(RegionCall(region), o)
    /\ pc' = "done"
    /\ UNCHANGED <<inputVars, cancelled, regions, spawned, wpc, wres, sem, wg,
                   resultsCh, closed, closer, all, skipped, execCalls, panicked,
                   atCancel, twiceVars, authVars, restVars>>

\* A result channel that holds the results of half the regions.
ChanCapHalved ==
    Len(regions) \div 2

\* make(chan result, len(regions)): the capacity of the result channel.
ChanCap ==
    Len(regions)

\* get<Kind>AllRegions from listRegions' return to the for loop: an
\* enumeration error is returned before anything is started.
ListRegionsReturn ==
    /\ pc = "list"
    /\ \E o \in (IF cancelled THEN {"killed"} ELSE Outcomes(ListCall)) :
         \E proc \in (IF cancelled THEN KillOutcomes(<<>>) ELSE {ListProc(o)}) :
           LET lr == listRegions(RunJSON(proc))
           IN  /\ stubbed' = IF cancelled THEN stubbed ELSE Remember(ListCall, o)
               /\ IF lr.err # Nil
                  THEN /\ ret' = Returned([res |-> EmptyResources, err |-> lr.err])
                       /\ pc' = "done"
                       /\ UNCHANGED <<regions, wpc, wres>>
                  ELSE /\ regions' = lr.regions
                       /\ wpc' = [i \in 1..Len(lr.regions) |-> "go"]
                       /\ wres' = [i \in 1..Len(lr.regions) |-> NoResult]
                       /\ pc' = "spawn"
                       /\ UNCHANGED ret
    /\ UNCHANGED <<inputVars, cancelled, spawned, sem, wg, resultsCh, closed,
                   closer, all, skipped, execCalls, panicked, atCancel,
                   twiceVars, authVars, restVars>>

\* One turn of the for loop: wg.Add(1); go func(region) {...}(rgn).
Spawn ==
    /\ pc = "spawn"
    /\ spawned < Len(regions)
    /\ wg' = wg + 1
    /\ wpc' = [wpc EXCEPT ![spawned + 1] = "sem"]
    /\ spawned' = spawned + 1
    /\ UNCHANGED <<inputVars, cancelled, pc, regions, wres, sem, resultsCh,
                   closed, closer, all, skipped, ret, execCalls, stubbed,
                   panicked, atCancel, twiceVars, authVars, restVars>>

\* After the loop: go func() { wg.Wait(); close(resultsCh) }(), and the
\* coordinator starts ranging over resultsCh.
SpawnCloser ==
    /\ pc = "spawn"
    /\ spawned = Len(regions)
    /\ closer' = "wait"
    /\ pc' = "collect"
    /\ UNCHANGED <<inputVars, cancelled, regions, spawned, wpc, wres, sem, wg,
                   resultsCh, closed, all, skipped, ret, execCalls, stubbed,
                   panicked, atCancel, twiceVars, authVars, restVars>>

\* A worker starting its call without waiting for the semaphore.
AcquireUnbounded(w) ==
    /\ wpc[w] = "sem"
    /\ sem' = sem + 1
    /\ execCalls' = Logged(RegionCall(regions[w]))
    /\ IF cancelled
       THEN /\ wres' = [wres EXCEPT ![w] =
                          Returned(SingleRegion(TheKind, regions[w], RunJSON(ProcNotStarted)))]
            /\ wpc' = [wpc EXCEPT ![w] = "send"]
       ELSE /\ wpc' = [wpc EXCEPT ![w] = "exec"]
            /\ UNCHANGED wres
    /\ UNCHANGED <<inputVars, cancelled, pc, regions, spawned, wg, resultsCh,
                   closed, closer, all, skipped, ret, stubbed, panicked,
                   atCancel, twiceVars, authVars, restVars>>

\* A worker's sem <- struct{}{} and the start of its call; under a ctx that
\* is already done the call fails at once.
Acquire(w) ==
    /\ wpc[w] = "sem"
    /\ sem < maxConcurrent
    /\ sem' = sem + 1
    /\ execCalls' = Logged(RegionCall(regions[w]))
    /\ IF cancelled
       THEN /\ wres' = [wres EXCEPT ![w] =
                          Returned(SingleRegion(TheKind, regions[w], RunJSON(ProcNotStarted)))]
            /\ wpc' = [wpc EXCEPT ![w] = "send"]
       ELSE /\ wpc' = [wpc EXCEPT ![w] = "exec"]
            /\ UNCHANGED wres
    /\ UNCHANGED <<inputVars, cancelled, pc, regions, spawned, wg, resultsCh,
                   closed, closer, all, skipped, ret, stubbed, panicked,
                   atCancel, twiceVars, authVars, restVars>>

\* A worker's get<Kind>SingleRegion call returns.
ExecReturn(w) ==
    /\ wpc[w] = "exec"
    /\ \E o \in (IF cancelled THEN {"killed"} ELSE Outcomes(RegionCall(regions[w]))) :
         \E proc \in (IF cancelled THEN KillOutcomes(regions[w])
                      ELSE {ProcOf(o, regions[w])}) :
           /\ wres' = [wres EXCEPT ![w] =
                         Returned(SingleRegion(TheKind, regions[w], RunJSON(proc)))]
           /\ stubbed' = IF cancelled THEN stubbed ELSE Remember(RegionCall(regions[w]), o)
    /\ wpc' = [wpc EXCEPT ![w] = "send"]
    /\ UNCHANGED <<inputVars, cancelled, pc, regions, spawned, sem, wg,
                   resultsCh, closed, closer, all, skipped, ret, execCalls,
                   panicked, atCancel, twiceVars, authVars, restVars>>

\* The result a worker sends: the region and the error, or the region and
\* the records.
WorkerResult(w) ==
    IF wres[w].err # Nil
    THEN [region |-> regions[w], records |-> <<>>, err |-> wres[w].err]
    ELSE [region |-> regions[w], records |-> wres[w].res.Records, err |-> Nil]

\* The failure branch sending its result and falling through to the second
\* send, as it would without its return.
SendNoReturn(w) ==
    /\ wpc[w] = "send"
    /\ closed \/ Len(resultsCh) < ChanCap
    /\ IF closed
       THEN /\ panicked' = TRUE
            /\ UNCHANGED resultsCh
       ELSE /\ resultsCh' = IF wres[w].err # Nil
                            THEN Append(Append(resultsCh, WorkerResult(w)),
                                        WorkerResult(w))
                            ELSE Append(resultsCh, WorkerResult(w))
            /\ UNCHANGED panicked
    /\ wpc' = [wpc EXCEPT ![w] = "release"]
    /\ UNCHANGED <<inputVars, cancelled, pc, regions, spawned, wres, sem, wg,
                   closed, closer, all, skipped, ret, execCalls, stubbed,
                   atCancel, twiceVars, authVars, restVars>>

\* A worker's resultsCh <- result{...}: it waits while the buffer is full and
\* panics when the channel is closed.
Send(w) ==
    /\ wpc[w] = "send"
    /\ closed \/ Len(resultsCh) < ChanCap
    /\ IF closed
       THEN /\ panicked' = TRUE
            /\ UNCHANGED resultsCh
       ELSE /\ resultsCh' = Append(resultsCh, WorkerResult(w))
            /\ UNCHANGED panicked
    /\ wpc' = [wpc EXCEPT ![w] = "release"]
    /\ UNCHANGED <<inputVars, cancelled, pc, regions, spawned, wres, sem, wg,
                   closed, closer, all, skipped, ret, execCalls, stubbed,
                   atCancel, twiceVars, authVars, restVars>>

\* A worker's deferred <-sem.
Release(w) ==
    /\ wpc[w] = "release"
    /\ sem' = sem - 1
    /\ wpc' = [wpc EXCEPT ![w] = "wgdone"]
    /\ UNCHANGED <<inputVars, cancelled, pc, regions, spawned, wres, wg,
                   resultsCh, closed, closer, all, skipped, ret, execCalls,
                   stubbed, panicked, atCancel, twiceVars, authVars, restVars>>

\* A worker's deferred wg.Done().
WgDone(w) ==
    /\ wpc[w] = "wgdone"
    /\ wg' = wg - 1
    /\ wpc' = [wpc EXCEPT ![w] = "exit"]
    /\ UNCHANGED <<inputVars, cancelled, pc, regions, spawned, wres, sem,
                   resultsCh, closed, closer, all, skipped, ret, execCalls,
                   stubbed, panicked, atCancel, twiceVars, authVars, restVars>>

\* close(resultsCh) without wg.Wait().
CloserCloseNoWait ==
    /\ closer = "wait"
    /\ closed' = TRUE
    /\ closer' = "exit"
    /\ UNCHANGED <<inputVars, cancelled, pc, regions, spawned, wpc, wres, sem,
                   wg, resultsCh, all, skipped, ret, execCalls, stubbed,
                   panicked, atCancel, twiceVars, authVars, restVars>>

\* close(resultsCh) put off until the coordinator has returned.
CloserCloseAfterReturn ==
    /\ closer = "wait"
    /\ wg = 0
    /\ pc = "done"
    /\ closed' = TRUE
    /\ closer' = "exit"
    /\ UNCHANGED <<inputVars, cancelled, pc, regions, spawned, wpc, wres, sem,
                   wg, resultsCh, all, skipped, ret, execCalls, stubbed,
                   panicked, atCancel, twiceVars, authVars, restVars>>

\* wg.Wait() returns once the counter is zero; then close(resultsCh).
CloserClose ==
    /\ closer = "wait"
    /\ wg = 0
    /\ closed' = TRUE
    /\ closer' = "exit"
    /\ UNCHANGED <<inputVars, cancelled, pc, regions, spawned, wpc, wres, sem,
                   wg, resultsCh, all, skipped, ret, execCalls, stubbed,
                   panicked, atCancel, twiceVars, authVars, restVars>>

\* The range loop skipping every failed region.
ReceiveSkipAny ==
    /\ pc = "collect"
    /\ Len(resultsCh) > 0
    /\ LET r == Head(resultsCh)
       IN  /\ resultsCh' = Tail(resultsCh)
           /\ IF r.err # Nil
              THEN IF TRUE
                   THEN /\ skipped' = Append(skipped, r.region)
                        /\ UNCHANGED <<all, ret, pc>>
                   ELSE /\ ret' = Returned([res |-> EmptyResources, err |-> r.err])
                        /\ pc' = "done"
                        /\ UNCHANGED <<all, skipped>>
              ELSE /\ all' = all \o r.records
                   /\ UNCHANGED <<skipped, ret, pc>>
    /\ UNCHANGED <<inputVars, cancelled, regions, spawned, wpc, wres, sem, wg,
                   closed, closer, execCalls, stubbed, panicked, atCancel,
                   twiceVars, authVars, restVars>>

\* The range loop keeping the last region's records only.
ReceiveOverwrite ==
    /\ pc = "collect"
    /\ Len(resultsCh) > 0
    /\ LET r == Head(resultsCh)
       IN  /\ resultsCh' = Tail(resultsCh)
           /\ IF r.err # Nil
              THEN IF isAuthError(r.err)
                   THEN /\ skipped' = Append(skipped, r.region)
                        /\ UNCHANGED <<all, ret, pc>>
                   ELSE /\ ret' = Returned([res |-> EmptyResources, err |-> r.err])
                        /\ pc' = "done"
                        /\ UNCHANGED <<all, skipped>>
              ELSE /\ all' = r.records
                   /\ UNCHANGED <<skipped, ret, pc>>
    /\ UNCHANGED <<inputVars, cancelled, regions, spawned, wpc, wres, sem, wg,
                   closed, closer, execCalls, stubbed, panicked, atCancel,
                   twiceVars, authVars, restVars>>

\* The range loop reading a worker's result before the worker has sent it.
ReceiveUnsent ==
    /\ pc = "collect"
    /\ \E w \in 1..Len(wpc) :
         /\ wpc[w] = "send"
         /\ LET r == WorkerResult(w)
            IN  IF r.err # Nil
                THEN IF isAuthError(r.err)
                     THEN /\ skipped' = Append(skipped, r.region)
                          /\ UNCHANGED <<all, ret, pc>>
                     ELSE /\ ret' = Returned([res |-> EmptyResources, err |-> r.err])
                          /\ pc' = "done"
                          /\ UNCHANGED <<all, skipped>>
                ELSE /\ all' = all \o r.records
                     /\ UNCHANGED <<skipped, ret, pc>>
    /\ UNCHANGED <<inputVars, cancelled, regions, spawned, wpc, wres, sem, wg,
                   resultsCh, closed, closer, execCalls, stubbed, panicked,
                   atCancel, twiceVars, authVars, restVars>>

\* One turn of for r := range resultsCh: a skippable error is noted, another
\* error is returned at once, records are appended.
Receive ==
    /\ pc = "collect"
    /\ Len(resultsCh) > 0
    /\ LET r == Head(resultsCh)
       IN  /\ resultsCh' = Tail(resultsCh)
           /\ IF r.err # Nil
              THEN IF isAuthError(r.err)
                   THEN /\ skipped' = Append(skipped, r.region)
                        /\ UNCHANGED <<all, ret, pc>>
                   ELSE /\ ret' = Returned([res |-> EmptyResources, err |-> r.err])
                        /\ pc' = "done"
                        /\ UNCHANGED <<all, skipped>>
              ELSE /\ all' = all \o r.records
                   /\ UNCHANGED <<skipped, ret, pc>>
    /\ UNCHANGED <<inputVars, cancelled, regions, spawned, wpc, wres, sem, wg,
                   closed, closer, execCalls, stubbed, panicked, atCancel,
                   twiceVars, authVars, restVars>>

\* The range loop ending on an empty channel that is still open.
FinishWhenEmpty ==
    /\ pc = "collect"
    /\ Len(resultsCh) = 0
    /\ ret' = Returned([res |-> [Service |-> TheKind.service, Records |-> all,
                                 Message |-> SkippedMessage(skipped)],
                        err |-> Nil])
    /\ pc' = "done"
    /\ UNCHANGED <<inputVars, cancelled, regions, spawned, wpc, wres, sem, wg,
                   resultsCh, closed, closer, all, skipped, execCalls, stubbed,
                   panicked, atCancel, twiceVars, authVars, restVars>>

\* The range loop ends on the closed, drained channel: the merged result.
Finish ==
    /\ pc = "collect"
    /\ Len(resultsCh) = 0
    /\ closed
    /\ ret' = Returned([res |-> [Service |-> TheKind.service, Records |-> all,
                                 Message |-> SkippedMessage(skipped)],
                        err |-> Nil])
    /\ pc' = "done"
    /\ UNCHANGED <<inputVars, cancelled, regions, spawned, wpc, wres, sem, wg,
                   resultsCh, closed, closer, all, skipped, execCalls, stubbed,
                   panicked, atCancel, twiceVars, authVars, restVars>>

Workers ==
    1..Len(wpc)

\* The steps of an all-regions call.
NextAllRegions ==
    \/ Call
    \/ ListRegionsReturn
    \/ Spawn
    \/ SpawnCloser
    \/ \E w \in Workers : Acquire(w)
    \/ \E w \in Workers : ExecReturn(w)
    \/ \E w \in Workers : Send(w)
    \/ \E w \in Workers : Release(w)
    \/ \E w \in Workers : WgDone(w)
    \/ CloserClose
    \/ Receive
    \/ Finish

Next ==
    \/ NextAllRegions
    \/ SingleReturn

\* One GetResources call, for any request, under a context that stays live.
Spec ==
    Init /\ [][Next]_vars

\* ------------------------------------------- more regions than the semaphore holds

InitCap ==
    /\ service = KeyEC2
    /\ region = AllSelector
    /\ env = [shape |-> "repeated", usable |-> CapRegions, outcomes |-> {"ok"}]
    /\ AggIdle
    /\ FirstCall
    /\ AuthIdle
    /\ RestIdle

\* One all-regions call in an account that lists CapRegions regions.
SpecCap ==
    InitCap /\ [][NextAllRegions]_vars

\* -------------------------------------------------------------- fair runs

\* The scheduler runs a goroutine that can take a step as long as there is
\* one, and every aws process that was started ends.
Fairness ==
    WF_vars(NextAllRegions)

\* Any all-regions request in any of the accounts, or the listing of an
\* account with more regions than the semaphore holds.
InitLive ==
    /\ \/ \E rq \in AllRequests :
            /\ service = rq[1]
            /\ region = rq[2]
            /\ env \in Environments(rq[1], rq[2])
       \/ /\ service = KeyEC2
          /\ region = AllSelector
          /\ env = [shape |-> "repeated", usable |-> CapRegions, outcomes |-> {"ok"}]
    /\ AggIdle
    /\ FirstCall
    /\ AuthIdle
    /\ RestIdle

\* One all-regions call under a fair scheduler.
SpecLive ==
    InitLive /\ [][NextAllRegions]_vars /\ Fairness

\* Any all-regions request in any of the accounts.
InitDrain ==
    /\ \E rq \in AllRequests :
          /\ service = rq[1]
          /\ region = rq[2]
          /\ env \in Environments(rq[1], rq[2])
    /\ AggIdle
    /\ FirstCall
    /\ AuthIdle
    /\ RestIdle

\* One all-regions call, some of whose regions fail, under a fair scheduler.
SpecDrain ==
    InitDrain /\ [][NextAllRegions]_vars /\ Fairness

\* ------------------------------------------------------------- cancellation

\* The workers whose call has been asked for and has not returned.
Outstanding ==
    {w \in 1..Len(wpc) : wpc[w] \in {"sem", "exec"}}

\* The request's context is done (the client went away, a deadline passed)
\* while the call is under way.
Cancel ==
    /\ ~cancelled
    /\ pc # "done"
    /\ cancelled' = TRUE
    /\ atCancel' = Outstanding
    /\ UNCHANGED <<inputVars, pc, regions, spawned, wpc, wres, sem, wg,
                   resultsCh, closed, closer, all, skipped, ret, execCalls,
                   stubbed, panicked, twiceVars, authVars, restVars>>

InitCancel ==
    /\ \E rq \in {<<KeyEC2, AllSelector>>, <<KeyRDS, SelRegion>>} :
         /\ service = rq[1]
         /\ region = rq[2]
    /\ env \in {[shape |-> "mixed", usable |-> k, outcomes |-> {"ok", "auth", "fatal"}] :
                  k \in 0..MaxRegions}
    /\ AggIdle
    /\ FirstCall
    /\ AuthIdle
    /\ RestIdle

NextCancel ==
    \/ Next
    \/ Cancel

\* One GetResources call under a context that can be cancelled at any point.
SpecCancel ==
    InitCancel /\ [][NextCancel]_vars

\* ------------------------------------------------------- the same call twice

\* GetResources is called again with the same arguments against the same
\* executor answers. The first call's remaining workers keep their own
\* channel, semaphore and WaitGroup; the second call starts once their
\* executor calls have returned, so each region's outcome is on record.
CallAgain ==
    /\ pc = "done"
    /\ callNo = 1
    /\ \A w \in 1..Len(wres) : wres[w].returned
    /\ callNo' = 2
    /\ firstRet' = ret
    /\ firstSkipped' = skipped
    /\ pc' = "idle"
    /\ regions' = <<>>
    /\ spawned' = 0
    /\ wpc' = <<>>
    /\ wres' = <<>>
    /\ sem' = 0
    /\ wg' = 0
    /\ resultsCh' = <<>>
    /\ closed' = FALSE
    /\ closer' = "go"
    /\ all' = <<>>
    /\ skipped' = <<>>
    /\ ret' = NoReturn
    /\ UNCHANGED <<inputVars, cancelled, execCalls, stubbed, panicked, atCancel,
                   authVars, restVars>>

InitTwice ==
    /\ service = KeyEC2
    /\ region = AllSelector
    /\ env \in {[shape |-> "mixed", usable |-> k, outcomes |-> {"ok", "auth", "fatal"}] :
                  k \in 0..MaxRegions}
    /\ AggIdle
    /\ FirstCall
    /\ AuthIdle
    /\ RestIdle

NextTwice ==
    \/ NextAllRegions
    \/ CallAgain

\* Two all-regions calls in a row against an executor that answers a given
\* argument list the same way each time.
SpecTwice ==
    InitTwice /\ [][NextTwice]_vars

\* ------------------------------------------------------ isAuthError alone

\* Error texts: each phrase isAuthError looks for as aws prints it, in upper
\* case and as the bare phrase, texts one character short of a phrase, and
\* texts of other failures.
AuthTexts ==
    {TxtAuthFailure, TxtAuthUpper, PhraseAuthFailure, TxtAuthShort, TxtAuthSpaced,
     TxtValidate, PhraseValidate, ToUpper(PhraseValidate), TxtValidateShort,
     TxtInvalidToken, PhraseInvalidToken, ToUpper(PhraseInvalidToken), TxtTokenShort,
     TxtEndpoint, PhraseEndpoint, ToUpper(PhraseEndpoint), TxtEndpointShort,
     TxtInternal, TxtAccessDenied, TxtKilled, TxtCanceled, TxtExitStatus, TxtJSON,
     ParsePrefix \o OpDescribeInstances \o ParseSuffix \o TxtJSON,
     ParsePrefix \o OpDescribeRegions \o ParseSuffix \o TxtJSON,
     <<>>}

\* The errors isAuthError is asked about: nil, and each text bare, as RunJSON
\* wraps it, and with text after it.
AuthInputs ==
    {Nil} \cup {Err(pre \o t \o post) :
                  pre \in {<<>>, CliErrorPrefix}, t \in AuthTexts, post \in {<<>>, TxtSuffix}}

InitAuth ==
    /\ service = KeyEC2
    /\ region = <<>>
    /\ env = [shape |-> "empty", usable |-> 0, outcomes |-> {"ok"}]
    /\ AggIdle
    /\ FirstCall
    /\ authErr \in AuthInputs
    /\ authOut = "none"
    /\ RestIdle

\* isAuthError(authErr) is evaluated.
Classify ==
    /\ authOut = "none"
    /\ authOut' = IF isAuthError(authErr) THEN "skippable" ELSE "fatal"
    /\ UNCHANGED <<inputVars, cancelled, pc, regions, spawned, wpc, wres, sem, wg,
                   resultsCh, closed, closer, all, skipped, ret, execCalls,
                   stubbed, panicked, atCancel, twiceVars, authErr, restVars>>

NextAuth ==
    Classify

\* isAuthError applied to one error.
SpecAuth ==
    InitAuth /\ [][NextAuth]_vars

\* ---------------------------------------------------------------- the cache

\* The zero value of the cache's value type.
ZeroValue ==
    <<>>

\* Cache.Get with an entry taken for expired at its deadline already.
CacheGetExpiredAtDeadline(d, key, t) ==
    IF key \notin DOMAIN d THEN [value |-> ZeroValue, found |-> FALSE]
    ELSE IF t >= d[key].expiresAt THEN [value |-> ZeroValue, found |-> FALSE]
    ELSE [value |-> d[key].value, found |-> TRUE]

\* Cache.Get on the map d at time t: the entry's value unless there is none
\* or time.Now().After(e.expiresAt).
CacheGet(d, key, t) ==
    IF key \notin DOMAIN d THEN [value |-> ZeroValue, found |-> FALSE]
    ELSE IF t > d[key].expiresAt THEN [value |-> ZeroValue, found |-> FALSE]
    ELSE [value |-> d[key].value, found |-> TRUE]

\* Cache.Set adding the new records to those of the entry it finds.
CacheSetMixing(d, key, value, t, life) ==
    [k \in DOMAIN d \cup {key} |->
        IF k # key THEN d[k]
        ELSE IF key \in DOMAIN d
        THEN [value |-> [value EXCEPT !.Records = d[key].value.Records \o @],
              expiresAt |-> t + life]
        ELSE [value |-> value, expiresAt |-> t + life]]

\* Cache.Set: the map with c.data[key] = entry{value, time.Now().Add(c.ttl)}.
CacheSet(d, key, value, t, life) ==
    [k \in DOMAIN d \cup {key} |->
        IF k = key THEN [value |-> value, expiresAt |-> t + life] ELSE d[k]]

\* Cache.Clear: make(map[string]entry[V]).
CacheClear ==
    <<>>

\* The keys and the values the cache is used with here.
CacheKeys ==
    {<<"j">>, <<"k">>}

CacheValues ==
    {<<"v">>, <<"w">>}

\* Nothing has set or cleared the key.
NoWrite ==
    [kind |-> "none", value |-> ZeroValue, time |-> 0]

LastWriteOf(key) ==
    IF key \in DOMAIN lastWrite THEN lastWrite[key] ELSE NoWrite

\* c.Set(key, value), under the write lock.
Set(key, value) ==
    /\ data' = CacheSet(data, key, value, now, ttl)
    /\ lastWrite' = [k \in DOMAIN lastWrite \cup {key} |->
                        IF k = key THEN [kind |-> "set", value |-> value, time |-> now]
                        ELSE lastWrite[k]]
    /\ UNCHANGED <<ttl, now, got, exceptCache>>

\* c.Get(key) deleting the entry it finds expired.
GetEvicting(key) ==
    /\ got' = [key |-> key, value |-> CacheGet(data, key, now).value,
               found |-> CacheGet(data, key, now).found, asked |-> TRUE,
               at |-> now, last |-> LastWriteOf(key)]
    /\ data' = IF key \in DOMAIN data /\ now > data[key].expiresAt
               THEN [k \in DOMAIN data \ {key} |-> data[k]]
               ELSE data
    /\ UNCHANGED <<ttl, now, lastWrite, exceptCache>>

\* c.Get(key), under the read lock.
Get(key) ==
    /\ got' = [key |-> key, value |-> CacheGet(data, key, now).value,
               found |-> CacheGet(data, key, now).found, asked |-> TRUE,
               at |-> now, last |-> LastWriteOf(key)]
    /\ UNCHANGED <<ttl, now, data, lastWrite, exceptCache>>

\* c.Clear(), under the write lock.
Clear ==
    /\ data' = CacheClear
    /\ lastWrite' = [k \in DOMAIN lastWrite |->
                        [kind |-> "clear", value |-> ZeroValue, time |-> now]]
    /\ UNCHANGED <<ttl, now, got, exceptCache>>

\* Time passes.
Tick ==
    /\ now < MaxTime
    /\ now' = now + 1
    /\ UNCHANGED <<ttl, data, lastWrite, got, exceptCache>>

\* cache.New(ttl): the time to live is what CACHE_TTL_SECONDS says, 60 by
\* default, zero and negative values included.
InitCache ==
    /\ AggUnused
    /\ AuthIdle
    /\ MgrIdle
    /\ SvcIdle
    /\ HttpIdle
    /\ CostIdle
    /\ RawIdle
    /\ ttl \in -1..MaxTTL
    /\ now = 0
    /\ data = <<>>
    /\ lastWrite = <<>>
    /\ got = NoGet

NextCache ==
    \/ \E key \in CacheKeys, value \in CacheValues : Set(key, value)
    \/ \E key \in CacheKeys : Get(key)
    \/ Clear
    \/ Tick

\* One cache under any sequence of Set, Get, Clear and clock readings.
SpecCache ==
    InitCache /\ [][NextCache]_vars

\* ------------------------------------------------------ the profile manager

SystemID ==
    <<"s", "y", "s", "t", "e", "m">>

SourceCustom ==
    <<"c", "u", "s", "t", "o", "m">>

DigitChars ==
    <<"0", "1", "2", "3", "4", "5", "6", "7", "8", "9">>

\* strconv.FormatInt(n, 10).
RECURSIVE FormatNat(_)
FormatNat(n) ==
    IF n < 10 THEN <<DigitChars[n + 1]>>
    ELSE FormatNat(n \div 10) \o <<DigitChars[(n % 10) + 1]>>

FormatInt(n) ==
    IF n < 0 THEN <<"-">> \o FormatNat(0 - n) ELSE FormatNat(n)

ErrNameRequired ==
    Err(<<"p", "r", "o", "f", "i", "l", "e", " ", "n", "a", "m", "e", " ",
          "i", "s", " ", "r", "e", "q", "u", "i", "r", "e", "d">>)

ErrKeysRequired ==
    Err(<<"a", "c", "c", "e", "s", "s", " ", "k", "e", "y", " ", "i", "d",
          " ", "a", "n", "d", " ", "s", "e", "c", "r", "e", "t", " ", "a",
          "c", "c", "e", "s", "s", " ", "k", "e", "y", " ", "a", "r", "e",
          " ", "r", "e", "q", "u", "i", "r", "e", "d">>)

ErrValidate ==
    Err(<<"u", "n", "a", "b", "l", "e", " ", "t", "o", " ", "v", "a", "l",
          "i", "d", "a", "t", "e", " ", "c", "r", "e", "d", "e", "n", "t",
          "i", "a", "l", "s", " ", "w", "i", "t", "h", " ", "A", "W", "S",
          " ", "(", "s", "t", "s", " ", "g", "e", "t", "-", "c", "a", "l",
          "l", "e", "r", "-", "i", "d", "e", "n", "t", "i", "t", "y", " ",
          "f", "a", "i", "l", "e", "d", ")">>)

ErrNoSystem ==
    Err(<<"s", "y", "s", "t", "e", "m", " ", "A", "W", "S", " ", "c", "r",
          "e", "d", "e", "n", "t", "i", "a", "l", "s", " ", "a", "r", "e",
          " ", "n", "o", "t", " ", "a", "v", "a", "i", "l", "a", "b", "l",
          "e">>)

ErrNotFound(id) ==
    Err(<<"p", "r", "o", "f", "i", "l", "e", " ">> \o Quote \o id \o Quote
        \o <<" ", "n", "o", "t", " ", "f", "o", "u", "n", "d">>)

\* Manager.ActiveID.
ActiveIDOf(active, available) ==
    IF active = <<>> /\ available THEN SystemID ELSE active

ActiveID ==
    ActiveIDOf(activeID, systemAvailable)

\* encoding/json on a Profile: sessionToken and region are omitempty.
JSONFields ==
    {"id", "name", "accessKeyId", "secretAccessKey", "sessionToken", "region",
     "source"}

FieldOf(p, f) ==
    CASE f = "id" -> p.ID
      [] f = "name" -> p.Name
      [] f = "accessKeyId" -> p.AccessKeyID
      [] f = "secretAccessKey" -> p.SecretAccessKey
      [] f = "sessionToken" -> p.SessionToken
      [] f = "region" -> p.Region
      [] f = "source" -> p.Source

MarshalProfile(p) ==
    [f \in {g \in JSONFields :
                g \in {"sessionToken", "region"} => FieldOf(p, g) # <<>>}
        |-> FieldOf(p, f)]

Member(o, f) ==
    IF f \in DOMAIN o THEN o[f] ELSE <<>>

UnmarshalProfile(o) ==
    [ID |-> Member(o, "id"), Name |-> Member(o, "name"),
     AccessKeyID |-> Member(o, "accessKeyId"),
     SecretAccessKey |-> Member(o, "secretAccessKey"),
     SessionToken |-> Member(o, "sessionToken"),
     Region |-> Member(o, "region"), Source |-> Member(o, "source")]

\* The orders in which ranging over the profile map can visit its keys.
KeyOrders(m) ==
    {o \in [1..Cardinality(DOMAIN m) -> DOMAIN m] :
        \A i, j \in DOMAIN o : i # j => o[i] # o[j]}

\* What saveLocked writes when the map is visited in this order.
SavedDocument(m, active, next, order) ==
    [nextId |-> next, activeId |-> active,
     profiles |-> [i \in DOMAIN order |-> MarshalProfile(m[order[i]])]]

WrittenFile(doc) ==
    [exists |-> TRUE, valid |-> TRUE, doc |-> doc]

\* loadFromDisk's loop: entries without credentials are skipped, a later
\* entry with the same id replaces an earlier one.
RECURSIVE LoadProfiles(_, _)
LoadProfiles(objects, n) ==
    IF n = 0 THEN <<>>
    ELSE LET before == LoadProfiles(objects, n - 1)
             p == UnmarshalProfile(objects[n])
         IN  IF p.AccessKeyID = <<>> \/ p.SecretAccessKey = <<>> THEN before
             ELSE [id \in DOMAIN before \cup {p.ID} |->
                      IF id = p.ID THEN p ELSE before[id]]

\* The Manager NewManager builds from the store file and the credentials probe.
NewManager(file, available) ==
    LET fresh == [profiles |-> <<>>,
                  activeID |-> IF available THEN SystemID ELSE <<>>,
                  systemAvailable |-> available, nextID |-> 1]
    IN  IF ~file.exists \/ ~file.valid THEN fresh
        ELSE [profiles |-> LoadProfiles(file.doc.profiles, Len(file.doc.profiles)),
              activeID |-> IF file.doc.activeId # <<>> THEN file.doc.activeId
                           ELSE fresh.activeID,
              systemAvailable |-> available,
              nextID |-> IF file.doc.nextId > 0 THEN file.doc.nextId ELSE 1]

NewProfile(id, in) ==
    [ID |-> id, Name |-> in.name, AccessKeyID |-> in.accessKey,
     SecretAccessKey |-> in.secretKey, SessionToken |-> in.sessionToken,
     Region |-> in.region, Source |-> SourceCustom]

\* An AddAndActivateProfile that takes the id before it validates.
AddAndActivateEager(in, valid) ==
    /\ nextID <= MaxProfiles
    /\ IF TrimSpace(in.name) = <<>>
       THEN /\ mgrRet' = Added(ErrNameRequired, in, valid)
            /\ UNCHANGED <<profiles, activeID, nextID, store>>
       ELSE IF in.accessKey = <<>> \/ in.secretKey = <<>>
       THEN /\ mgrRet' = Added(ErrKeysRequired, in, valid)
            /\ UNCHANGED <<profiles, activeID, nextID, store>>
       ELSE IF ~valid
       THEN /\ mgrRet' = Added(ErrValidate, in, valid)
            /\ nextID' = nextID + 1
            /\ UNCHANGED <<profiles, activeID, store>>
       ELSE LET id == FormatInt(nextID)
                m == [k \in DOMAIN profiles \cup {id} |->
                        IF k = id THEN NewProfile(id, in) ELSE profiles[k]]
            IN  /\ profiles' = m
                /\ activeID' = id
                /\ nextID' = nextID + 1
                /\ \E order \in KeyOrders(m) :
                      store' = WrittenFile(SavedDocument(m, id, nextID + 1, order))
                /\ mgrRet' = Added(Nil, in, valid)
    /\ UNCHANGED <<systemAvailable, exceptMgr>>

\* AddAndActivateProfile; valid is what sts get-caller-identity says of the keys.
AddAndActivateProfile(in, valid) ==
    /\ nextID <= MaxProfiles
    /\ IF TrimSpace(in.name) = <<>>
       THEN /\ mgrRet' = Added(ErrNameRequired, in, valid)
            /\ UNCHANGED <<profiles, activeID, nextID, store>>
       ELSE IF in.accessKey = <<>> \/ in.secretKey = <<>>
       THEN /\ mgrRet' = Added(ErrKeysRequired, in, valid)
            /\ UNCHANGED <<profiles, activeID, nextID, store>>
       ELSE IF ~valid
       THEN /\ mgrRet' = Added(ErrValidate, in, valid)
            /\ UNCHANGED <<profiles, activeID, nextID, store>>
       ELSE LET id == FormatInt(nextID)
                m == [k \in DOMAIN profiles \cup {id} |->
                        IF k = id THEN NewProfile(id, in) ELSE profiles[k]]
            IN  /\ profiles' = m
                /\ activeID' = id
                /\ nextID' = nextID + 1
                /\ \E order \in KeyOrders(m) :
                      store' = WrittenFile(SavedDocument(m, id, nextID + 1, order))
                /\ mgrRet' = Added(Nil, in, valid)
    /\ UNCHANGED <<systemAvailable, exceptMgr>>

\* SetActiveProfile taking any id for the id of a stored profile.
SetActiveProfileUnchecked(id) ==
    /\ activeID' = id
    /\ \E order \in KeyOrders(profiles) :
          store' = WrittenFile(SavedDocument(profiles, id, nextID, order))
    /\ mgrRet' = Selected(Nil, id)
    /\ UNCHANGED <<profiles, systemAvailable, nextID, exceptMgr>>

\* SetActiveProfile.
SetActiveProfile(id) ==
    /\ IF id = SystemID
       THEN IF ~systemAvailable
            THEN /\ mgrRet' = Selected(ErrNoSystem, id)
                 /\ UNCHANGED <<activeID, store>>
            ELSE /\ activeID' = SystemID
                 /\ mgrRet' = Selected(Nil, id)
                 /\ UNCHANGED store
       ELSE IF id \notin DOMAIN profiles
       THEN /\ mgrRet' = Selected(ErrNotFound(id), id)
            /\ UNCHANGED <<activeID, store>>
       ELSE /\ activeID' = id
            /\ \E order \in KeyOrders(profiles) :
                  store' = WrittenFile(SavedDocument(profiles, id, nextID, order))
            /\ mgrRet' = Selected(Nil, id)
    /\ UNCHANGED <<profiles, systemAvailable, nextID, exceptMgr>>

\* The profiles the dashboard is asked to add: with a name, a blank name or
\* none, with or without either key, with or without a session token.
AddInputs ==
    [name : {<<"n">>, <<" ">>, <<>>}, accessKey : {<<"k">>, <<>>},
     secretKey : {<<"s">>, <<>>}, sessionToken : {<<"t">>, <<>>},
     region : {<<>>}]

\* The ids the dashboard is asked to select: system, the ids of the profiles
\* there can be, one there is not, none.
SelectInputs ==
    {SystemID, <<>>} \cup {FormatInt(n) : n \in 1..(MaxProfiles + 1)}

\* A server started without a store file, with or without system credentials.
InitMgr ==
    /\ AggUnused
    /\ AuthIdle
    /\ CacheIdle
    /\ SvcIdle
    /\ HttpIdle
    /\ CostIdle
    /\ RawIdle
    /\ store = NoFile
    /\ systemAvailable \in BOOLEAN
    /\ profiles = NewManager(store, systemAvailable).profiles
    /\ activeID = NewManager(store, systemAvailable).activeID
    /\ nextID = NewManager(store, systemAvailable).nextID
    /\ mgrRet = NoCall

NextMgr ==
    \/ \E in \in AddInputs, valid \in BOOLEAN : AddAndActivateProfile(in, valid)
    \/ \E id \in SelectInputs : SetActiveProfile(id)

SpecMgr ==
    InitMgr /\ [][NextMgr]_vars

\* A profile as an earlier run saved it, with its access key or without.
StoredProfile(id, keyed) ==
    MarshalProfile(NewProfile(id, [name |-> <<"n">>,
                                   accessKey |-> IF keyed THEN <<"k">> ELSE <<>>,
                                   secretKey |-> <<"s">>,
                                   sessionToken |-> <<>>,
                                   region |-> <<>>]))

\* The store files NewManager finds: none, one that is not JSON, and
\* documents with any nextId, with no activeId, "system" or a profile's id,
\* and with no profile, profiles with credentials and profiles without.
StoreFiles ==
    {NoFile, [exists |-> TRUE, valid |-> FALSE, doc |-> EmptyDocument]}
    \cup {WrittenFile([nextId |-> n, activeId |-> a, profiles |-> ps]) :
            n \in 0..MaxProfiles,
            a \in {<<>>, SystemID, FormatInt(1), FormatInt(2)},
            ps \in {<<>>,
                    <<StoredProfile(FormatInt(1), TRUE)>>,
                    <<StoredProfile(FormatInt(1), FALSE)>>,
                    <<StoredProfile(FormatInt(1), TRUE),
                      StoredProfile(FormatInt(2), TRUE)>>,
                    <<StoredProfile(FormatInt(1), TRUE),
                      StoredProfile(FormatInt(2), FALSE)>>}}

\* A server started with any of the store files, with or without system
\* credentials.
InitLoad ==
    /\ AggUnused
    /\ AuthIdle
    /\ CacheIdle
    /\ SvcIdle
    /\ HttpIdle
    /\ CostIdle
    /\ RawIdle
    /\ store \in StoreFiles
    /\ systemAvailable \in BOOLEAN
    /\ profiles = NewManager(store, systemAvailable).profiles
    /\ activeID = NewManager(store, systemAvailable).activeID
    /\ nextID = NewManager(store, systemAvailable).nextID
    /\ mgrRet = NoCall

\* The profile manager of a server that found a store file.
SpecLoad ==
    InitLoad /\ [][NextMgr]_vars

\* ----------------------------------------------- the cached resource service

KeySeparator ==
    <<"|">>

\* activeProfile: "system" unless the manager names an active profile.
ActiveProfile(id) ==
    IF id # <<>> THEN id ELSE SystemID

\* A key whose service is not lowered.
CacheKeyServiceAsGiven(profile, svc, rgn) ==
    profile \o KeySeparator \o svc \o KeySeparator \o ToLower(rgn)

\* fmt.Sprintf("%s|%s|%s", activeProfile, ToLower(service), ToLower(region)).
CacheKey(profile, svc, rgn) ==
    profile \o KeySeparator \o ToLower(svc) \o KeySeparator \o ToLower(rgn)

\* The request whose result no entry holds.
NoOrigin ==
    [profile |-> <<>>, service |-> <<>>, region |-> <<>>, by |-> 0,
     fetched |-> 0, ran |-> {}]

\* A request that has not arrived.
NoRequest ==
    [pc |-> "idle", service |-> <<>>, region |-> <<>>, profile |-> <<>>,
     key |-> <<>>, res |-> EmptyResources, err |-> Nil, hit |-> FALSE,
     from |-> NoOrigin, began |-> 0, calls |-> 0, ran |-> {},
     own |-> EmptyResources, fetched |-> 0]

\* The (service, region) pairs requests come with.
SelPiped ==
    <<"a", "|">>

KeyEC2Piped ==
    KeyEC2 \o <<"|", "a">>

CachedInputs ==
    {[service |-> KeyEC2, region |-> <<>>],
     [service |-> KeyEC2Upper, region |-> <<>>],
     [service |-> KeyEC2, region |-> AllSelector],
     [service |-> KeyEC2, region |-> SelPiped],
     [service |-> KeyEC2Piped, region |-> <<>>]}

\* What the inner GetResources can return for a request: the default case's
\* message, one region's listing or its error, an all-regions result with or
\* without a skipped region or its error.
InnerOutcomes(svc, rgn) ==
    LET kind == Dispatch(ToLower(svc))
    IN  IF kind = NoKind THEN {[res |-> NotImplemented(svc), err |-> Nil]}
        ELSE IF kind.regional /\ ToLower(rgn) = AllSelector
        THEN {[res |-> [Service |-> kind.service,
                        Records |-> Project(kind, RegionName(1), <<"i">>),
                        Message |-> msg],
               err |-> Nil] : msg \in {<<>>, SkippedMessage(<<RegionName(2)>>)}}
             \cup {[res |-> EmptyResources,
                    err |-> RunJSON(ProcFail(FatalText(RegionName(1)))).err]}
        ELSE {SingleRegion(kind, rgn, RunJSON(proc)) :
                proc \in {ProcOK(<<"i">>), ProcFail(FatalText(rgn))}}

\* A request arrives: the active profile is read and the key is built.
Begin(r, in) ==
    /\ reqs[r].pc = "idle"
    /\ \A q \in 1..(r - 1) : reqs[q].pc # "idle"
    /\ LET profile == ActiveProfile(ActiveID)
       IN  reqs' = [reqs EXCEPT ![r] =
                       [@ EXCEPT !.pc = "get", !.service = in.service,
                                 !.region = in.region, !.profile = profile,
                                 !.key = CacheKey(profile, in.service, in.region),
                                 !.began = clears]]
    /\ UNCHANGED <<storedBy, clears, cacheVars, mgrVars, exceptSvc>>

\* c.cache.Get(key): a hit returns the entry.
Lookup(r) ==
    /\ reqs[r].pc = "get"
    /\ LET cached == CacheGet(data, reqs[r].key, now)
       IN  reqs' = [reqs EXCEPT ![r] =
                       IF cached.found
                       THEN [@ EXCEPT !.pc = "done", !.res = cached.value,
                                      !.hit = TRUE,
                                      !.from = storedBy[reqs[r].key]]
                       ELSE [@ EXCEPT !.pc = "fetch"]]
    /\ UNCHANGED <<storedBy, clears, cacheVars, mgrVars, exceptSvc>>

\* ActiveEnv: whose credentials an aws process started now runs with, the
\* active custom profile's or, with no overrides, the host's.
ActiveEnvOf(active, stored) ==
    IF active = <<>> \/ active = SystemID THEN SystemID
    ELSE IF active \notin DOMAIN stored THEN SystemID
    ELSE active

\* The RunJSON calls the inner GetResources makes for a request: none in the
\* default case, one for a region, the enumeration and one per region of the
\* two the account lists for "all".
CallsOf(svc, rgn) ==
    LET kind == Dispatch(ToLower(svc))
    IN  IF kind = NoKind THEN 0
        ELSE IF kind.regional /\ ToLower(rgn) = AllSelector THEN 3
        ELSE 1

\* The calls that have been made when the inner GetResources returns out: all
\* of them, or with an error of "all" the enumeration and one region's at
\* least.
CallsMade(svc, rgn, out) ==
    IF out.err # Nil /\ CallsOf(svc, rgn) = 3 THEN {2, 3}
    ELSE {CallsOf(svc, rgn)}

\* CLIExecutor.RunJSON, called by the inner GetResources: the process gets
\* the environment ActiveEnv gives at this moment.
Execute(r) ==
    /\ reqs[r].pc = "fetch"
    /\ reqs[r].calls < CallsOf(reqs[r].service, reqs[r].region)
    /\ reqs' = [reqs EXCEPT ![r] =
                   [@ EXCEPT !.calls = @ + 1,
                             !.ran = @ \cup {ActiveEnvOf(activeID, profiles)}]]
    /\ UNCHANGED <<storedBy, clears, cacheVars, mgrVars, exceptSvc>>

\* c.inner.GetResources returns, and an error's empty value is stored too.
InnerReturnCachingFailure(r) ==
    /\ reqs[r].pc = "fetch"
    /\ \E out \in InnerOutcomes(reqs[r].service, reqs[r].region) :
          /\ reqs[r].calls \in CallsMade(reqs[r].service, reqs[r].region, out)
          /\ reqs' = [reqs EXCEPT ![r] =
                         IF out.err # Nil
                         THEN [@ EXCEPT !.pc = "done", !.res = EmptyResources,
                                        !.err = out.err, !.fetched = clears]
                         ELSE [@ EXCEPT !.pc = "set", !.res = out.res,
                                        !.own = out.res, !.fetched = clears]]
          /\ data' = IF out.err # Nil
                     THEN CacheSet(data, reqs[r].key, EmptyResources, now, ttl)
                     ELSE data
    /\ UNCHANGED <<storedBy, clears, ttl, now, lastWrite, got, mgrVars, exceptSvc>>

\* c.inner.GetResources returns: an error is passed on with an empty value.
InnerReturn(r) ==
    /\ reqs[r].pc = "fetch"
    /\ \E out \in InnerOutcomes(reqs[r].service, reqs[r].region) :
          /\ reqs[r].calls \in CallsMade(reqs[r].service, reqs[r].region, out)
          /\ reqs' = [reqs EXCEPT ![r] =
                         IF out.err # Nil
                         THEN [@ EXCEPT !.pc = "done", !.res = EmptyResources,
                                        !.err = out.err, !.fetched = clears]
                         ELSE [@ EXCEPT !.pc = "set", !.res = out.res,
                                        !.own = out.res, !.fetched = clears]]
    /\ UNCHANGED <<storedBy, clears, cacheVars, mgrVars, exceptSvc>>

\* c.cache.Set(key, res), and the return of res.
Store(r) ==
    /\ reqs[r].pc = "set"
    /\ data' = CacheSet(data, reqs[r].key, reqs[r].res, now, ttl)
    /\ storedBy' = [k \in DOMAIN storedBy \cup {reqs[r].key} |->
                      IF k = reqs[r].key
                      THEN [profile |-> reqs[r].profile,
                            service |-> reqs[r].service,
                            region |-> reqs[r].region,
                            by |-> r,
                            fetched |-> reqs[r].fetched,
                            ran |-> reqs[r].ran]
                      ELSE storedBy[k]]
    /\ reqs' = [reqs EXCEPT ![r].pc = "done"]
    /\ UNCHANGED <<ttl, now, lastWrite, got, clears, mgrVars, exceptSvc>>

\* clearCaches, called by handleCacheClear: resourceCache.Clear().
ClearCaches ==
    /\ clears < MaxClears
    /\ data' = CacheClear
    /\ clears' = clears + 1
    /\ UNCHANGED <<ttl, now, lastWrite, got, reqs, storedBy, mgrVars, exceptSvc>>

\* A server with system credentials and one custom profile, saved and active.
OneProfile ==
    NewProfile(FormatInt(1),
               [name |-> <<"n">>, accessKey |-> <<"k">>, secretKey |-> <<"s">>,
                sessionToken |-> <<>>, region |-> <<>>])

InitCached ==
    /\ AggUnused
    /\ AuthIdle
    /\ ttl \in 0..MaxTTL
    /\ now = 0
    /\ data = <<>>
    /\ lastWrite = <<>>
    /\ got = NoGet
    /\ profiles = [id \in {FormatInt(1)} |-> OneProfile]
    /\ activeID = FormatInt(1)
    /\ systemAvailable = TRUE
    /\ nextID = 2
    /\ store = WrittenFile(SavedDocument(profiles, activeID, nextID,
                                         <<FormatInt(1)>>))
    /\ mgrRet = NoCall
    /\ reqs = [r \in 1..MaxRequests |-> NoRequest]
    /\ storedBy = <<>>
    /\ clears = 0
    /\ HttpIdle
    /\ CostIdle
    /\ RawIdle

NextCached ==
    \/ \E r \in 1..MaxRequests, in \in CachedInputs : Begin(r, in)
    \/ \E r \in 1..MaxRequests : Lookup(r)
    \/ \E r \in 1..MaxRequests : Execute(r)
    \/ \E r \in 1..MaxRequests : InnerReturn(r)
    \/ \E r \in 1..MaxRequests : Store(r)
    \/ \E id \in {SystemID, FormatInt(1)} : SetActiveProfile(id)
    \/ Tick

SpecCached ==
    InitCached /\ [][NextCached]_vars

\* The requests of a server whose caches are cleared now and then: one
\* region's listing and the listing of all regions.
ServeInputs ==
    {[service |-> KeyEC2, region |-> <<>>],
     [service |-> KeyEC2, region |-> AllSelector]}

\* The steps of the requests themselves.
NextRequests ==
    \/ \E r \in 1..MaxRequests, in \in ServeInputs : Begin(r, in)
    \/ \E r \in 1..MaxRequests : Lookup(r)
    \/ \E r \in 1..MaxRequests : Execute(r)
    \/ \E r \in 1..MaxRequests : InnerReturn(r)
    \/ \E r \in 1..MaxRequests : Store(r)

NextClear ==
    \/ NextRequests
    \/ ClearCaches

\* Concurrent requests of the cached resource service while the caches are
\* cleared.
SpecClear ==
    InitCached /\ [][NextClear]_vars

\* The profile a user adds while requests are served.
OtherProfile ==
    [name |-> <<"m">>, accessKey |-> <<"k">>, secretKey |-> <<"s">>,
     sessionToken |-> <<>>, region |-> <<>>]

NextSwitch ==
    \/ \E in \in ServeInputs : Begin(1, in)
    \/ Lookup(1)
    \/ Execute(1)
    \/ InnerReturn(1)
    \/ Store(1)
    \/ \E id \in {SystemID, FormatInt(1)} : SetActiveProfile(id)
    \/ AddAndActivateProfile(OtherProfile, TRUE)

\* One request of the cached resource service while the active profile is
\* switched and a profile is added.
SpecSwitch ==
    InitCached /\ [][NextSwitch]_vars

\* The requests that race: MaxRequests of them and one more, for another
\* key or a later time.
Racers ==
    1..(MaxRequests + 1)

InitRace ==
    /\ AggUnused
    /\ AuthIdle
    /\ ttl = MaxTTL
    /\ now = 0
    /\ data = <<>>
    /\ lastWrite = <<>>
    /\ got = NoGet
    /\ store = NoFile
    /\ systemAvailable = TRUE
    /\ profiles = NewManager(store, systemAvailable).profiles
    /\ activeID = NewManager(store, systemAvailable).activeID
    /\ nextID = NewManager(store, systemAvailable).nextID
    /\ mgrRet = NoCall
    /\ reqs = [r \in Racers |-> NoRequest]
    /\ storedBy = <<>>
    /\ clears = 0
    /\ HttpIdle
    /\ CostIdle
    /\ RawIdle

NextRace ==
    \/ \E r \in Racers, in \in ServeInputs : Begin(r, in)
    \/ \E r \in Racers : Lookup(r)
    \/ \E r \in Racers : Execute(r)
    \/ \E r \in Racers : InnerReturn(r)
    \/ \E r \in Racers : Store(r)

\* Concurrent requests of the cached resource service, no entry expiring.
SpecRace ==
    InitRace /\ [][NextRace]_vars

\* ------------------------------------------------------------ the handlers

StatusOK == 200

StatusInternalServerError == 500

FailedToFetch ==
    <<"F", "a", "i", "l", "e", "d", " ", "t", "o", " ", "f", "e", "t", "c",
      "h", " ", "r", "e", "s", "o", "u", "r", "c", "e", "s">>

\* servicesToCheck: the services of the summary, by their keys.
ServicesToCheck ==
    <<KeyEC2, KeyVPC, KeyEIP, KeyS3, KeyRekognition, KeyRDS>>

\* A goroutine of the summary that has not sent its result.
NoSummaryResult ==
    [Count |-> 0, Err |-> Nil, sent |-> FALSE]

\* The response to a failed GetResources: 200 and the empty value.
ErrorAnsweredOK(err) ==
    [written |-> TRUE, status |-> StatusOK, Error |-> <<>>, Details |-> <<>>,
     Resources |-> EmptyResources, Summaries |-> <<>>]

\* The response to a failed GetResources: 500, error and details.
ErrorAnswer(err) ==
    [written |-> TRUE, status |-> StatusInternalServerError,
     Error |-> FailedToFetch, Details |-> err.msg,
     Resources |-> EmptyResources, Summaries |-> <<>>]

\* A handler that answers 200 whatever GetResources returned.
ServeResourcesAlwaysOK ==
    /\ endpoint = "resources"
    /\ ret.returned
    /\ ~resp.written
    /\ resp' = IF ret.err # Nil THEN ErrorAnsweredOK(ret.err)
               ELSE [written |-> TRUE, status |-> StatusOK, Error |-> <<>>,
                     Details |-> <<>>, Resources |-> ret.res,
                     Summaries |-> <<>>]
    /\ UNCHANGED <<endpoint, sumRes, sumCh, sumSeen, summaries, exceptHttp>>

\* handleServiceResources once GetResources has returned; the cache in front
\* of the resource service is empty, so it returns what the inner call did.
ServeResources ==
    /\ endpoint = "resources"
    /\ ret.returned
    /\ ~resp.written
    /\ resp' = IF ret.err # Nil THEN ErrorAnswer(ret.err)
               ELSE [written |-> TRUE, status |-> StatusOK, Error |-> <<>>,
                     Details |-> <<>>, Resources |-> ret.res,
                     Summaries |-> <<>>]
    /\ UNCHANGED <<endpoint, sumRes, sumCh, sumSeen, summaries, exceptHttp>>

\* A goroutine of handleResourcesSummary: GetResources(ctx, svc.Key, "all"),
\* then the send of the count or of the error (the channel holds them all).
SummaryGo(i) ==
    /\ endpoint = "summary"
    /\ ~sumRes[i].sent
    /\ \E out \in InnerOutcomes(ServicesToCheck[i], AllSelector) :
          sumRes' = [sumRes EXCEPT ![i] =
                        [Count |-> IF out.err # Nil THEN 0
                                   ELSE Len(out.res.Records),
                         Err |-> out.err, sent |-> TRUE]]
    /\ sumCh' = Append(sumCh, i)
    /\ UNCHANGED <<endpoint, resp, sumSeen, summaries, exceptHttp>>

\* One round of the receive loop: a result with an error is logged and
\* skipped, any other becomes a summary.
SummaryReceive ==
    /\ endpoint = "summary"
    /\ sumSeen < Len(ServicesToCheck)
    /\ sumCh # <<>>
    /\ LET i == Head(sumCh)
       IN  summaries' = IF sumRes[i].Err # Nil THEN summaries
                        ELSE Append(summaries,
                                    [Service |-> ServicesToCheck[i],
                                     Count |-> sumRes[i].Count])
    /\ sumCh' = Tail(sumCh)
    /\ sumSeen' = sumSeen + 1
    /\ UNCHANGED <<endpoint, resp, sumRes, exceptHttp>>

\* After the loop: 200 and the summaries.
SummaryRespond ==
    /\ endpoint = "summary"
    /\ sumSeen = Len(ServicesToCheck)
    /\ ~resp.written
    /\ resp' = [written |-> TRUE, status |-> StatusOK, Error |-> <<>>,
                Details |-> <<>>, Resources |-> EmptyResources,
                Summaries |-> summaries]
    /\ UNCHANGED <<endpoint, sumRes, sumCh, sumSeen, summaries, exceptHttp>>

\* One request: for the resources of a service, or for the summary.
InitHTTP ==
    /\ \/ /\ endpoint = "resources"
          /\ \E rq \in AllRequests \cup SingleRequests :
                /\ service = rq[1]
                /\ region = rq[2]
                /\ env \in Environments(rq[1], rq[2])
          /\ sumRes = <<>>
       \/ /\ endpoint = "summary"
          /\ service = KeyEC2
          /\ region = <<>>
          /\ env = [shape |-> "empty", usable |-> 0, outcomes |-> {"ok"}]
          /\ sumRes = [i \in 1..Len(ServicesToCheck) |-> NoSummaryResult]
    /\ AggIdle
    /\ FirstCall
    /\ AuthIdle
    /\ CacheIdle
    /\ MgrIdle
    /\ SvcIdle
    /\ resp = NoResponse
    /\ sumCh = <<>>
    /\ sumSeen = 0
    /\ summaries = <<>>
    /\ CostIdle
    /\ RawIdle

NextHTTP ==
    \/ endpoint = "resources" /\ Next
    \/ ServeResources
    \/ \E i \in 1..Len(ServicesToCheck) : SummaryGo(i)
    \/ SummaryReceive
    \/ SummaryRespond

SpecHTTP ==
    InitHTTP /\ [][NextHTTP]_vars

\* ------------------------------------------------------- the cost derivation

TypeUsage ==
    <<"u", "s", "a", "g", "e">>

TypeCredit ==
    <<"c", "r", "e", "d", "i", "t">>

IsDigit(c) ==
    \E i \in DOMAIN DigitChars : DigitChars[i] = c

DigitValue(c) ==
    (CHOOSE i \in DOMAIN DigitChars : DigitChars[i] = c) - 1

RECURSIVE ParseDigits(_)
ParseDigits(str) ==
    IF Len(str) = 0 THEN 0
    ELSE ParseDigits(SubSeq(str, 1, Len(str) - 1)) * 10
            + DigitValue(str[Len(str)])

\* strconv.ParseFloat on the text of a whole amount: an optional sign and
\* digits; any other text here is one it rejects.
ParseAmount(str) ==
    LET signed == Len(str) > 0 /\ str[1] \in {"-", "+"}
        digits == IF signed THEN Tail(str) ELSE str
    IN  IF Len(digits) = 0 \/ \E i \in DOMAIN digits : ~IsDigit(digits[i])
        THEN [ok |-> FALSE, value |-> 0]
        ELSE [ok |-> TRUE,
              value |-> IF signed /\ str[1] = "-" THEN 0 - ParseDigits(digits)
                        ELSE ParseDigits(digits)]

Abs(x) ==
    IF x < 0 THEN 0 - x ELSE x

\* math.Abs(netTotal) < 0.0000001: of the whole amounts, zero alone is.
BelowThreshold(x) ==
    Abs(x) < 1

\* What a group adds to (usage, credits): nothing without a key, without the
\* UnblendedCost metric or without a number in it; credits by their size.
GroupAdds(g) ==
    LET amount == ParseAmount(g.Amount)
        recordType == ToLower(g.Keys[1])
    IN  IF Len(g.Keys) = 0 \/ ~g.hasMetric \/ ~amount.ok
        THEN [usage |-> 0, credits |-> 0]
        ELSE IF recordType = TypeUsage
        THEN [usage |-> amount.value, credits |-> 0]
        ELSE IF recordType = TypeCredit
        THEN [usage |-> 0, credits |-> Abs(amount.value)]
        ELSE [usage |-> 0, credits |-> 0]

RECURSIVE SumGroups(_)
\* The loop of fetchRecordTypeTotals over r.Groups.
SumGroups(groups) ==
    IF Len(groups) = 0 THEN [usage |-> 0, credits |-> 0]
    ELSE LET rest == SumGroups(Tail(groups))
             g == GroupAdds(Head(groups))
         IN  [usage |-> g.usage + rest.usage, credits |-> g.credits + rest.credits]

\* fetchRecordTypeTotals: the totals of resp.ResultsByTime[0], or an error.
fetchRecordTypeTotals(answer) ==
    IF answer.failed \/ Len(answer.periods) = 0
    THEN [usage |-> 0, credits |-> 0, failed |-> TRUE]
    ELSE LET sums == SumGroups(answer.periods[1])
         IN  [usage |-> sums.usage, credits |-> sums.credits, failed |-> FALSE]

\* The end of fetchFromAWS: the three totals of the overview.
DeriveOverview(answer) ==
    LET totals == fetchRecordTypeTotals(answer)
        fallback == ParseAmount(answer.fallback)
        usageTotal == IF totals.failed
                      THEN IF fallback.ok THEN fallback.value ELSE 0
                      ELSE totals.usage
        creditsApplied == totals.credits
        netTotal == usageTotal - creditsApplied
    IN  [derived |-> TRUE, Total |-> usageTotal,
         NetTotal |-> IF BelowThreshold(netTotal) THEN 0 ELSE netTotal,
         CreditsApplied |-> creditsApplied]

Derive ==
    /\ ~overview.derived
    /\ overview' = DeriveOverview(costIn)
    /\ UNCHANGED <<costIn, exceptCost>>

\* The groups Cost Explorer answers with: usage, a credit (negative, as it
\* arrives, or positive), a tax, a group without key, one without the
\* metric, one whose amount is no number.
Group(keys, hasMetric, amount) ==
    [Keys |-> keys, hasMetric |-> hasMetric, Amount |-> amount]

CostGroups ==
    {Group(<<<<"U", "s", "a", "g", "e">>>>, TRUE, <<"1", "2", "0">>),
     Group(<<TypeUsage>>, TRUE, <<"3">>),
     Group(<<<<"C", "r", "e", "d", "i", "t">>>>, TRUE, <<"-", "1", "5">>),
     Group(<<TypeCredit>>, TRUE, <<"4">>),
     Group(<<<<"T", "a", "x">>>>, TRUE, <<"7">>),
     Group(<<>>, TRUE, <<"5">>),
     Group(<<TypeUsage>>, FALSE, <<>>),
     Group(<<TypeUsage>>, TRUE, <<"x">>)}

\* The sequences of at most n groups.
GroupLists(n) ==
    UNION {[1..k -> CostGroups] : k \in 0..n}

\* The RECORD_TYPE query failed, or it answered with the months of the time
\* period asked for: the first with up to MaxGroups groups, then at most one
\* more with one group; the SERVICE query's total is 100 or missing.
InitCost ==
    /\ AggUnused
    /\ AuthIdle
    /\ CacheIdle
    /\ MgrIdle
    /\ SvcIdle
    /\ HttpIdle
    /\ RawIdle
    /\ \E failed \in BOOLEAN, first \in GroupLists(MaxGroups),
          later \in GroupLists(1), months \in 0..2,
          fallback \in {<<>>, <<"1", "0", "0">>} :
          /\ failed => months = 0
          /\ months < 2 => later = <<>>
          /\ months = 0 => first = <<>>
          /\ months > 0 => fallback = <<>>
          /\ costIn = [failed |-> failed,
                       periods |-> CASE months = 0 -> <<>>
                                     [] months = 1 -> <<first>>
                                     [] months = 2 -> <<first, later>>,
                       fallback |-> fallback]
    /\ overview = NoOverview

NextCost ==
    Derive

SpecCost ==
    InitCost /\ [][NextCost]_vars

\* ------------------------------------------------------ the raw command route

StatusBadRequest == 400

\* isSafeAWSArgs: block.
BlockList ==
    <<<<" ", "d", "e", "l", "e", "t", "e", "-">>,
      <<" ", "d", "e", "l", "e", "t", "e">>,
      <<" ", "t", "e", "r", "m", "i", "n", "a", "t", "e", "-">>,
      <<" ", "t", "e", "r", "m", "i", "n", "a", "t", "e">>,
      <<" ", "s", "t", "o", "p", "-">>,
      <<" ", "s", "t", "o", "p", " ">>,
      <<" ", "s", "t", "a", "r", "t", "-">>,
      <<" ", "s", "t", "a", "r", "t", " ">>,
      <<" ", "r", "e", "b", "o", "o", "t", "-">>,
      <<" ", "r", "e", "b", "o", "o", "t">>,
      <<" ", "d", "e", "s", "t", "r", "o", "y">>,
      <<" ", "d", "r", "o", "p", "-">>,
      <<" ", "m", "o", "d", "i", "f", "y", "-">>,
      <<" ", "u", "p", "d", "a", "t", "e", "-">>,
      <<" ", "p", "u", "t", "-">>,
      <<" ", "c", "r", "e", "a", "t", "e", "-">>,
      <<" ", "a", "t", "t", "a", "c", "h", "-">>,
      <<" ", "d", "e", "t", "a", "c", "h", "-">>>>

ErrNotConfigured == <<"C", "o", "m", "m", "a", "n", "d", " ", "e", "x", "e", "c", "u", "t", "i", "o", "n", " ", "i", "s", " ", "n", "o", "t", " ", "c", "o", "n", "f", "i", "g", "u", "r", "e", "d", " ", "o", "n", " ", "s", "e", "r", "v", "e", "r">>
ErrNoCommand == <<"N", "o", " ", "c", "o", "m", "m", "a", "n", "d", " ", "p", "r", "o", "v", "i", "d", "e", "d">>
ErrBlocked == <<"C", "o", "m", "m", "a", "n", "d", " ", "b", "l", "o", "c", "k", "e", "d", " ", "b", "y", " ", "s", "a", "f", "e", "t", "y", " ", "f", "i", "l", "t", "e", "r">>
ErrInvalidSyntax == <<"I", "n", "v", "a", "l", "i", "d", " ", "A", "W", "S", " ", "C", "L", "I", " ", "s", "y", "n", "t", "a", "x">>
ErrFailedToExecute == <<"F", "a", "i", "l", "e", "d", " ", "t", "o", " ", "e", "x", "e", "c", "u", "t", "e", " ", "c", "o", "m", "m", "a", "n", "d">>
PhraseUsage == <<"u", "s", "a", "g", "e", ":", " ", "a", "w", "s">>
PhraseInvalidChoice == <<"a", "r", "g", "u", "m", "e", "n", "t", " ", "c", "o", "m", "m", "a", "n", "d", ":", " ", "I", "n", "v", "a", "l", "i", "d", " ", "c", "h", "o", "i", "c", "e">>
CommandPrefix == <<"a", "w", "s", " ">>

Space ==
    <<" ">>

RECURSIVE Fields(_)
\* strings.Fields: the maximal runs of characters that are not white space.
Fields(str) ==
    IF Len(str) = 0 THEN <<>>
    ELSE IF IsSpace(str[1]) THEN Fields(Tail(str))
    ELSE LET spaces == {i \in 1..Len(str) : IsSpace(str[i])}
             n == IF spaces = {} THEN Len(str) + 1
                  ELSE CHOOSE i \in spaces : \A j \in spaces : i <= j
         IN  <<SubSeq(str, 1, n - 1)>> \o Fields(SubSeq(str, n, Len(str)))

\* A filter that compares the arguments as they were typed.
isSafeAWSArgsAsTyped(args) ==
    IF Len(args) = 0 THEN FALSE
    ELSE LET joined == Join(args, Space)
         IN  \A i \in DOMAIN BlockList : ~Contains(joined, BlockList[i])

\* isSafeAWSArgs: no entry of the block list occurs in the lowered command.
isSafeAWSArgs(args) ==
    IF Len(args) = 0 THEN FALSE
    ELSE LET joined == ToLower(Join(args, Space))
         IN  \A i \in DOMAIN BlockList : ~Contains(joined, BlockList[i])

RawAnswer(status, error, command) ==
    [written |-> TRUE, status |-> status, Error |-> error, Command |-> command]

\* What aws does with a raw command: it prints JSON, it prints its usage, it
\* fails otherwise.
RawOutcomes ==
    {ProcOK(<<"i">>), ProcFail(PhraseUsage), ProcFail(TxtInternal)}

\* handleExecuteRawCommand on a POST whose body decodes, ExecuteRaw and the
\* executor's call included.
HandleExecuteRawCommand ==
    /\ ~rawResp.written
    /\ LET fields == Fields(rawReq.args)
       IN  IF ~rawReq.configured
           THEN /\ rawResp' = RawAnswer(StatusInternalServerError,
                                        ErrNotConfigured, <<>>)
                /\ UNCHANGED rawCall
           ELSE IF Len(fields) = 0
           THEN /\ rawResp' = RawAnswer(StatusBadRequest, ErrNoCommand, <<>>)
                /\ UNCHANGED rawCall
           ELSE IF ~isSafeAWSArgs(fields)
           THEN /\ rawResp' = RawAnswer(StatusBadRequest, ErrBlocked, <<>>)
                /\ UNCHANGED rawCall
           ELSE /\ rawCall' = [invoked |-> TRUE, args |-> fields]
                /\ \E proc \in RawOutcomes :
                      LET run == RunJSON(proc)
                      IN  rawResp' =
                            IF run.err = Nil
                            THEN RawAnswer(StatusOK, <<>>,
                                           CommandPrefix \o Join(fields, Space))
                            ELSE IF \/ Contains(run.err.msg, PhraseUsage)
                                    \/ Contains(run.err.msg, PhraseInvalidChoice)
                            THEN RawAnswer(StatusBadRequest, ErrInvalidSyntax, <<>>)
                            ELSE RawAnswer(StatusBadRequest, ErrFailedToExecute,
                                           <<>>)
    /\ UNCHANGED <<rawReq, exceptRaw>>

\* The words raw commands are made of.
RawTokens ==
    {KeyEC2, KeyS3, OpDescribeInstances, OpListBuckets,
     <<"D", "e", "l", "e", "t", "e", "-", "B", "u", "c", "k", "e", "t">>,
     <<"T", "E", "R", "M", "I", "N", "A", "T", "E", "-", "I", "N", "S", "T", "A", "N", "C", "E", "S">>,
     <<"C", "r", "e", "a", "t", "e", "-", "V", "p", "c">>,
     <<"r", "u", "n", "-", "i", "n", "s", "t", "a", "n", "c", "e", "s">>,
     <<"d", "e", "l", "e", "t", "e", "m", "e">>,
     <<"r", "m">>}

\* A raw command of at most MaxTokens words, typed with single spaces or with
\* tabs and spaces around the words, sent to a server whose command manager
\* was loaded or was not.
InitRaw ==
    /\ AggUnused
    /\ AuthIdle
    /\ CacheIdle
    /\ MgrIdle
    /\ SvcIdle
    /\ HttpIdle
    /\ CostIdle
    /\ \E n \in 0..MaxTokens, configured \in BOOLEAN, padded \in BOOLEAN :
          \E tokens \in [1..n -> RawTokens] :
              rawReq = [configured |-> configured,
                        args |-> IF padded
                                 THEN <<"\t">> \o Join(tokens, <<" ", "\t">>) \o Space
                                 ELSE Join(tokens, Space)]
    /\ rawResp = NoRawResponse
    /\ rawCall = NoRawCall

NextRaw ==
    HandleExecuteRawCommand

SpecRaw ==
    InitRaw /\ [][NextRaw]_vars

\* ------------------------------------------------------------- properties

RECURSIVE BagOfSeq(_)
\* The multiset of the elements of a sequence.
BagOfSeq(q) ==
    IF q = <<>> THEN EmptyBag ELSE SetToBag({Head(q)}) (+) BagOfSeq(Tail(q))

\* The workers whose call returned without error, with a skippable error,
\* with another error.
Succeeded ==
    {w \in 1..Len(wres) : wres[w].returned /\ wres[w].err = Nil}

Skippable ==
    {w \in 1..Len(wres) : wres[w].returned /\ isAuthError(wres[w].err)}

Fatal ==
    {w \in 1..Len(wres) :
        wres[w].returned /\ wres[w].err # Nil /\ ~isAuthError(wres[w].err)}

RECURSIVE RecordsUpTo(_)
\* The multiset union of the records of the first n regions' successful calls.
RecordsUpTo(n) ==
    IF n = 0 THEN EmptyBag
    ELSE RecordsUpTo(n - 1)
            (+) (IF n \in Succeeded THEN BagOfSeq(wres[n].res.Records) ELSE EmptyBag)

\* The enumeration has answered, and what listRegions made of the answer.
Enumerated ==
    IsAllRegions /\ ListCall \in DOMAIN stubbed

\* What RunJSON returned in a call on record.
RunOf(call) ==
    RunJSON(ProcFor(call, stubbed[call]))

ListRun ==
    RunOf(ListCall)

\* aws failed to list the regions, or printed what does not parse.
EnumerationFailed ==
    ListRun.err # Nil \/ ~ListRun.out.valid

\* The ways of putting the workers of W in a row.
Orderings(W) ==
    {p \in [1..Cardinality(W) -> W] :
        \A i, j \in 1..Cardinality(W) : i # j => p[i] # p[j]}

\* The per-region executor calls that have started and have not returned.
InFlight ==
    {w \in 1..Len(wpc) : wpc[w] = "exec"}

\* C1: during an all-regions aggregation, at most 5 per-region executor
\* calls are in flight (started and not yet returned) at any instant.
C1_AtMostFiveInFlight ==
    Cardinality(InFlight) <= 5

\* Five calls are in flight while a further worker waits for the semaphore.
C1_Witness ==
    /\ Cardinality(InFlight) = 5
    /\ \E w \in 1..Len(wpc) : wpc[w] = "sem"

\* C2: when the enumeration succeeds, the calls of a set S of regions fail
\* with skippable errors and every other call succeeds, the aggregation
\* returns success, its records are the multiset union of the records of the
\* regions outside S, and its message is empty when S is empty and otherwise
\* the fixed prefix followed by the names of the regions of S, each once, in
\* some order, joined by ", ".
C2_SkippableSubset ==
    (/\ pc = "done"
     /\ Enumerated
     /\ ~EnumerationFailed
     /\ Succeeded \cup Skippable = 1..Len(wres))
    => /\ ret.err = Nil
       /\ ret.res.Service = TheKind.service
       /\ BagOfSeq(ret.res.Records) = RecordsUpTo(Len(wres))
       /\ IF Skippable = {} THEN ret.res.Message = <<>>
          ELSE \E p \in Orderings(Skippable) :
                  ret.res.Message =
                      SkippedPrefix
                          \o Join([i \in 1..Cardinality(Skippable) |-> regions[p[i]]],
                                  JoinSep)

\* A region was skipped and another contributed records.
C2_Witness ==
    /\ pc = "done"
    /\ Enumerated
    /\ Succeeded \cup Skippable = 1..Len(wres)
    /\ Skippable # {}
    /\ ret.err = Nil
    /\ Len(ret.res.Records) > 0
    /\ ret.res.Message # <<>>

\* C3: when every per-region call succeeds, the aggregation returns the
\* multiset union of the records of all regions, whatever the order in which
\* the calls complete, and no message.
C3_AllSucceed ==
    (/\ pc = "done"
     /\ Enumerated
     /\ ~EnumerationFailed
     /\ Succeeded = 1..Len(wres))
    => /\ ret.err = Nil
       /\ \A x \in DOMAIN RecordsUpTo(Len(wres)) \cup DOMAIN BagOfSeq(ret.res.Records) :
             CopiesIn(x, BagOfSeq(ret.res.Records)) = CopiesIn(x, RecordsUpTo(Len(wres)))
       /\ ret.res.Message = <<>>

\* Every call succeeded and the second region's records were merged first.
C3_Witness ==
    /\ pc = "done"
    /\ Enumerated
    /\ Len(wres) >= 2
    /\ Succeeded = 1..Len(wres)
    /\ Len(ret.res.Records) = 3
    /\ ret.res.Records[1].region = regions[2]

\* C4: when at least one per-region call fails with a non-skippable error,
\* the aggregation returns an error, that error is one of the non-skippable
\* errors the calls returned, and the result returned with it is empty.
C4_NonSkippableAborts ==
    (/\ pc = "done"
     /\ Enumerated
     /\ Fatal # {})
    => /\ ret.err # Nil
       /\ ret.err \in {wres[w].err : w \in Fatal}
       /\ ret.res = EmptyResources

\* A call failed with a non-skippable error after another region's records
\* had been merged.
C4_Witness ==
    /\ pc = "done"
    /\ Enumerated
    /\ Fatal # {}
    /\ Len(all) > 0
    /\ ret.err # Nil

SingleConcrete ==
    TheKind # NoKind /\ ToLower(region) # AllSelector

\* C6: a request for a single concrete region makes exactly one executor
\* call and never enumerates regions; when that call fails, its error is
\* returned unchanged, a skippable error too.
C6_SingleRegion ==
    SingleConcrete
    => LET call == RegionCall(region)
       IN  /\ CopiesIn(ListCall, execCalls) = 0
           /\ BagCardinality(execCalls) <= 1
           /\ wpc = <<>>
           /\ pc = "done"
              => /\ execCalls = SetToBag({call})
                 /\ ArgsOf(call) # ArgsOf(ListCall)
                 /\ RunOf(call).err # Nil
                    => /\ ret.err = RunOf(call).err
                       /\ ret.res = EmptyResources

\* A request for one named region failed with a skippable error and the
\* error was returned.
C6_Witness ==
    /\ pc = "done"
    /\ SingleConcrete
    /\ TheKind.regional
    /\ region = SelRegion
    /\ isAuthError(ret.err)
    /\ ret.err = RunOf(RegionCall(region)).err

\* C7: when the region enumeration fails, the aggregation returns that
\* error with an empty result and no per-region call is ever started.
C7_EnumerationFails ==
    (Enumerated /\ EnumerationFailed)
    => /\ pc = "done"
       /\ ret.err # Nil
       /\ ListRun.err # Nil => ret.err = ListRun.err
       /\ ret.res = EmptyResources
       /\ execCalls = SetToBag({ListCall})
       /\ spawned = 0
       /\ wpc = <<>>

\* The enumeration failed because aws did, and the call has returned.
C7_Witness ==
    /\ Enumerated
    /\ pc = "done"
    /\ ListRun.err # Nil
    /\ ret.err = ListRun.err

\* C8 as stated: when the context is cancelled while per-region calls are
\* outstanding, every one of them is aborted, and the aggregation returns an
\* error, never a result that lists the cancelled regions as skipped.
C8_CancellationIsFatal ==
    /\ \A w \in atCancel : wres[w].returned => wres[w].err # Nil
    /\ (pc = "done" /\ atCancel # {})
       => /\ ret.err # Nil
          /\ \A w \in atCancel : \A i \in 1..Len(skipped) : skipped[i] # regions[w]

\* The phrases isAuthError looks for.
Phrases ==
    {PhraseAuthFailure, PhraseValidate, PhraseInvalidToken, PhraseEndpoint}

\* The text holds the phrase at some offset, letter case aside.
HoldsPhrase(msg, ph) ==
    \E i \in 0..(Len(msg) - Len(ph)) :
        \A j \in 1..Len(ph) : LowerChar(msg[i + j]) = ph[j]

\* C9: an error is skippable exactly when it is not nil and its message, in
\* lower case, contains one of the four phrases.
C9_SkippableClassifier ==
    authOut # "none"
    => (authOut = "skippable"
        <=> (authErr # Nil /\ \E ph \in Phrases : HoldsPhrase(authErr.msg, ph)))

\* An error whose message holds a phrase in upper case was classified
\* skippable.
C9_Witness ==
    /\ authOut = "skippable"
    /\ authErr # Nil
    /\ authErr.msg # ToLower(authErr.msg)

\* The errors of the per-region calls, as the executor's answers on record
\* give them.
RecordedErr(w) ==
    SingleRegion(TheKind, regions[w], RunOf(RegionCall(regions[w]))).err

RecordedFatal ==
    {RecordedErr(w) : w \in {v \in 1..Len(regions) :
        /\ RegionCall(regions[v]) \in DOMAIN stubbed
        /\ RecordedErr(v) # Nil
        /\ ~isAuthError(RecordedErr(v))}}

\* Both calls returned a result, with the same records and the same skipped
\* regions.
SameSuccess ==
    /\ ret.err = Nil
    /\ firstRet.err = Nil
    /\ ret.res.Service = firstRet.res.Service
    /\ BagOfSeq(ret.res.Records) = BagOfSeq(firstRet.res.Records)
    /\ {skipped[i] : i \in 1..Len(skipped)}
          = {firstSkipped[i] : i \in 1..Len(firstSkipped)}

\* C10 as stated: two aggregations with the same inputs and the same
\* per-region outcomes both succeed with the same multiset of records and
\* the same set of skipped regions, or both fail with the same error.
C10_SameOutcome ==
    (callNo = 2 /\ pc = "done")
    => \/ SameSuccess
       \/ ret.err # Nil /\ firstRet.err # Nil /\ ret.err = firstRet.err

\* C10: two aggregations with the same inputs and the same per-region
\* outcomes both succeed with the same multiset of records and the same set
\* of skipped regions, or both fail, with the enumeration's error or each
\* with one of the non-skippable errors of the per-region calls.
C10_SameOutcomeUpToError ==
    (callNo = 2 /\ pc = "done")
    => \/ SameSuccess
       \/ /\ ret.err # Nil
          /\ firstRet.err # Nil
          /\ IF EnumerationFailed
             THEN ret.err = firstRet.err
             ELSE {ret.err, firstRet.err} \subseteq RecordedFatal

\* The second call returned as the first did, with records and a skipped
\* region.
C10_Witness ==
    /\ callNo = 2
    /\ pc = "done"
    /\ Len(regions) >= 2
    /\ SameSuccess
    /\ Len(skipped) > 0
    /\ Len(ret.res.Records) > 0

\* C11: Get(k) returns (v, found) exactly when the most recent Set or Clear
\* affecting k was a Set(k, v) and the time of the Get is not after that
\* Set's time plus the TTL; otherwise it returns the zero value and
\* not-found, with or without a Clear in between.
C11_GetReturnsLiveSet ==
    got.asked
    => /\ got.found <=> (got.last.kind = "set" /\ got.at <= got.last.time + ttl)
       /\ got.found => got.value = got.last.value
       /\ ~got.found => got.value = ZeroValue

\* A Get after the deadline of a Set that no Clear followed found nothing,
\* and the entry is still in the map.
C11_Witness ==
    /\ got.asked
    /\ ~got.found
    /\ got.last.kind = "set"
    /\ got.at > got.last.time + ttl
    /\ ttl > 0
    /\ got.key \in DOMAIN data

\* C12: cachedResourceService.GetResources returns a cached value only if that
\* value was stored by a call made with the same active profile, the same
\* resource kind and the same region selector, kind and region compared
\* without regard to case: no two requests that differ in one of the three
\* share a cache entry.
C12_HitFromSameRequest ==
    \A r \in DOMAIN reqs :
        reqs[r].hit
        => /\ reqs[r].from.profile = reqs[r].profile
           /\ ToLower(reqs[r].from.service) = ToLower(reqs[r].service)
           /\ ToLower(reqs[r].from.region) = ToLower(reqs[r].region)

\* The GetResources calls the request made that returned an error.
FailedCalls ==
    IF endpoint = "resources"
    THEN IF ret.returned /\ ret.err # Nil THEN {service} ELSE {}
    ELSE {ServicesToCheck[i] : i \in {j \in DOMAIN sumRes :
                                         sumRes[j].sent /\ sumRes[j].Err # Nil}}

\* The services of the summary whose GetResources call returned no error.
SummarisedCalls ==
    {i \in DOMAIN sumRes : sumRes[i].sent /\ sumRes[i].Err = Nil}

\* C13 as stated: for both routes, when an aggregation the request invoked
\* fails with a non-skippable error, the response is a 500 with error and
\* details and no resource data.
C13_FailureAnswered500 ==
    (resp.written /\ FailedCalls # {})
    => /\ resp.status = StatusInternalServerError
       /\ resp.Error # <<>>
       /\ resp.Resources = EmptyResources
       /\ resp.Summaries = <<>>

\* C13, amended: GET /api/services/{service}/resources answers 500 with the
\* error's text as details and no resource data exactly when the aggregation
\* returned an error, and 200 with the aggregation's result otherwise, which
\* happens only when no per-region call failed non-skippably and the
\* enumeration did not fail. GET /api/resources/summary always answers 200:
\* its summaries are those of exactly the services whose aggregation
\* returned no error, a failed service is left out.
C13_ResourcesAllOrNothing ==
    resp.written
    => IF endpoint = "resources"
       THEN /\ ret.returned
            /\ ret.err # Nil
               => /\ resp.status = StatusInternalServerError
                  /\ resp.Error = FailedToFetch
                  /\ resp.Details = ret.err.msg
                  /\ resp.Resources = EmptyResources
            /\ ret.err = Nil
               => /\ resp.status = StatusOK
                  /\ resp.Resources = ret.res
            /\ resp.status = StatusOK
               => /\ Fatal = {}
                  /\ Enumerated => ~EnumerationFailed
            /\ resp.Summaries = <<>>
       ELSE /\ resp.status = StatusOK
            /\ resp.Resources = EmptyResources
            /\ Len(resp.Summaries) = Cardinality(SummarisedCalls)
            /\ \A i \in SummarisedCalls :
                  \E n \in DOMAIN resp.Summaries :
                      resp.Summaries[n] = [Service |-> ServicesToCheck[i],
                                           Count |-> sumRes[i].Count]

\* An all-regions request whose aggregation failed non-skippably after
\* another region's records had been merged, answered with 500 and no data.
C13_Witness ==
    /\ resp.written
    /\ endpoint = "resources"
    /\ Fatal # {}
    /\ Len(all) > 0
    /\ resp.status = StatusInternalServerError
    /\ resp.Resources = EmptyResources

\* The groups of every month of the RECORD_TYPE answer.
RECURSIVE AllGroups(_)
AllGroups(periods) ==
    IF Len(periods) = 0 THEN <<>>
    ELSE Head(periods) \o AllGroups(Tail(periods))

\* The groups of a record type that carry a whole amount.
OfType(groups, recordType) ==
    {i \in DOMAIN groups :
        /\ Len(groups[i].Keys) > 0
        /\ ToLower(groups[i].Keys[1]) = recordType
        /\ groups[i].hasMetric
        /\ ParseAmount(groups[i].Amount).ok}

RECURSIVE SumOver(_, _, _)
\* The sum of the amounts, or of their absolute values, of the groups in I.
SumOver(groups, I, absolute) ==
    IF I = {} THEN 0
    ELSE LET i == CHOOSE j \in I : TRUE
             v == ParseAmount(groups[i].Amount).value
         IN  (IF absolute THEN Abs(v) ELSE v)
                + SumOver(groups, I \ {i}, absolute)

\* C14 as stated: over whole amounts, when the RECORD_TYPE query answers,
\* the overview's Total is the sum of the amounts of all its usage groups,
\* CreditsApplied the sum of the absolute values of the amounts of all its
\* credit groups, NetTotal their difference, and groups of another record
\* type add to none of the three.
C14_TotalsOfAllGroups ==
    (overview.derived /\ ~costIn.failed /\ Len(costIn.periods) > 0)
    => LET groups == AllGroups(costIn.periods)
       IN  /\ overview.Total = SumOver(groups, OfType(groups, TypeUsage), FALSE)
           /\ overview.CreditsApplied
                 = SumOver(groups, OfType(groups, TypeCredit), TRUE)
           /\ overview.NetTotal = overview.Total - overview.CreditsApplied

HasPrefix(str, prefix) ==
    Len(str) >= Len(prefix) /\ SubSeq(str, 1, Len(prefix)) = prefix

\* The verbs C15 names, and those of a read-only operation.
BlockedVerbs ==
    {<<"c", "r", "e", "a", "t", "e", "-">>,
     <<"d", "e", "l", "e", "t", "e">>,
     <<"t", "e", "r", "m", "i", "n", "a", "t", "e">>}

ReadVerbs ==
    {<<"d", "e", "s", "c", "r", "i", "b", "e">>,
     <<"l", "i", "s", "t">>,
     <<"g", "e", "t">>}

\* A token after the first begins with one of the verbs, in any letter case.
HasTokenWith(tokens, verbs) ==
    \E i \in 2..Len(tokens) :
        \E verb \in verbs : HasPrefix(ToLower(tokens[i]), verb)

\* C15 as stated: a raw command with a token after the first that begins
\* with create-, delete or terminate, in any letter case, is answered 400
\* "Command blocked by safety filter", and ExecuteRaw is never invoked.
C15_BlockedAnswered400 ==
    (rawResp.written /\ HasTokenWith(Fields(rawReq.args), BlockedVerbs))
    => /\ rawResp.status = StatusBadRequest
       /\ rawResp.Error = ErrBlocked
       /\ ~rawCall.invoked

\* C15, amended: for such a command ExecuteRaw is never invoked; the answer
\* is 400 "Command blocked by safety filter" on a server whose command
\* manager was loaded, and 500 "Command execution is not configured on
\* server" on one whose command configuration failed to load.
C15_BlockedNeverExecuted ==
    (rawResp.written /\ HasTokenWith(Fields(rawReq.args), BlockedVerbs))
    => /\ ~rawCall.invoked
       /\ rawResp.Command = <<>>
       /\ IF rawReq.configured
          THEN rawResp.status = StatusBadRequest /\ rawResp.Error = ErrBlocked
          ELSE /\ rawResp.status = StatusInternalServerError
               /\ rawResp.Error = ErrNotConfigured

\* An upper-case terminate command, typed with tabs, was blocked.
C15_Witness ==
    /\ rawResp.written
    /\ rawReq.configured
    /\ \E i \in 2..Len(Fields(rawReq.args)) :
          /\ Fields(rawReq.args)[i] # ToLower(Fields(rawReq.args)[i])
          /\ HasPrefix(ToLower(Fields(rawReq.args)[i]), <<"t", "e", "r", "m", "i", "n", "a", "t", "e">>)
    /\ Contains(rawReq.args, <<"\t">>)
    /\ rawResp.Error = ErrBlocked
    /\ ~rawCall.invoked

\* C16 as stated: every argument list handleExecuteRawCommand passes to
\* ExecuteRaw denotes a read-only operation, one whose name begins with
\* describe, list or get; a command whose operation mutates state is
\* rejected before any executor call.
C16_OnlyReadOperations ==
    (rawCall.invoked /\ Len(rawCall.args) > 1)
    => \E verb \in ReadVerbs : HasPrefix(ToLower(rawCall.args[2]), verb)

\* The Manager a restart with the same credentials would build from the file.
Reloaded ==
    NewManager(store, systemAvailable)

\* C17 as stated: after any sequence of successful AddAndActivateProfile and
\* SetActiveProfile calls, the selection of system included, a new Manager
\* that loads the store file, with the same system credentials, has the
\* same custom profiles and reports the same active profile id.
C17_RoundTrip ==
    /\ Reloaded.profiles = profiles
    /\ ActiveIDOf(Reloaded.activeID, Reloaded.systemAvailable) = ActiveID

\* AddAndActivateProfile's preconditions on its arguments.
Acceptable(in) ==
    /\ \E i \in DOMAIN in.name : ~IsSpace(in.name[i])
    /\ in.accessKey # <<>>
    /\ in.secretKey # <<>>

\* C18: AddAndActivateProfile stores a new custom profile and makes it the
\* active one only when the name is not blank, both keys are non-empty and
\* the validation call succeeds; in every other case it returns an error and
\* the profile map, the active id, the next-id counter and the store file
\* are unchanged.
C18_AddAllOrNothing ==
    [][mgrRet'.op = "add"
       => IF Acceptable(mgrRet'.in) /\ mgrRet'.valid
          THEN /\ mgrRet'.err = Nil
               /\ DOMAIN profiles' = DOMAIN profiles \cup {FormatInt(nextID)}
               /\ profiles'[FormatInt(nextID)].Name = mgrRet'.in.name
               /\ profiles'[FormatInt(nextID)].AccessKeyID = mgrRet'.in.accessKey
               /\ \A id \in DOMAIN profiles :
                     id # FormatInt(nextID) => profiles'[id] = profiles[id]
               /\ activeID' = FormatInt(nextID)
               /\ nextID' = nextID + 1
               /\ store'.exists
          ELSE /\ mgrRet'.err # Nil
               /\ UNCHANGED <<profiles, activeID, nextID, store>>]_vars

\* A second profile whose keys sts rejected, after a first one was stored.
C18_Witness ==
    /\ mgrRet.op = "add"
    /\ mgrRet.err = ErrValidate
    /\ Acceptable(mgrRet.in)
    /\ nextID = 2
    /\ activeID = FormatInt(1)
    /\ store.exists

\* The workers that wait for the semaphore or whose call is running.
WaitingOrRunning ==
    {w \in 1..Len(wpc) : wpc[w] \in {"sem", "exec"}}

\* The workers whose result has gone into resultsCh.
Sent ==
    {w \in 1..Len(wpc) : wpc[w] \in {"release", "wgdone", "exit"}}

\* The coordinator has merged records, noted a skipped region or returned a
\* region's error.
Examined ==
    \/ Len(all) > 0
    \/ Len(skipped) > 0
    \/ pc = "done" /\ Enumerated /\ ~EnumerationFailed /\ ret.err # Nil

\* C19 as stated: in an all-regions aggregation no result has been merged,
\* recorded as skipped or acted on as fatal while some worker is still
\* waiting or running.
C19_JoinBarrier ==
    Examined => WaitingOrRunning = {}

\* C19: every result the coordinator has merged, recorded as skipped or
\* acted on as fatal is the result of a worker whose call has returned and
\* which has sent it, whatever the other workers are doing.
C19_ExaminedAfterSent ==
    /\ \A i \in 1..Len(skipped) :
          \E w \in Sent :
             /\ regions[w] = skipped[i]
             /\ wres[w].returned
             /\ wres[w].err # Nil
    /\ \A i \in 1..Len(all) :
          \E w \in Sent :
             /\ wres[w].returned
             /\ wres[w].err = Nil
             /\ \E j \in 1..Len(wres[w].res.Records) :
                   wres[w].res.Records[j] = all[i]
    /\ (pc = "done" /\ Enumerated /\ ~EnumerationFailed /\ ret.err # Nil)
       => \E w \in Sent : wres[w].returned /\ wres[w].err = ret.err

\* One region's result has been examined while another worker's call is
\* still running.
C19_Witness ==
    /\ Examined
    /\ \E w \in Sent : wres[w].returned
    /\ \E w \in 1..Len(wpc) : wpc[w] = "exec"

\* An all-regions aggregation is under way or over.
Aggregating ==
    TheKind # NoKind /\ IsAllRegions /\ pc # "idle"

\* The entries of the enumeration's answer that listRegions has to leave out
\* and those it has to keep.
LeftOut(e) ==
    e.RegionName = <<>> \/ EqualFold(e.OptInStatus, NotOptedIn)

Entries ==
    {ListRun.out.items[i] : i \in 1..Len(ListRun.out.items)}

\* The enumeration succeeded and every worker has finished.
AllWorkersFinished ==
    /\ Enumerated
    /\ ~EnumerationFailed
    /\ pc \in {"collect", "done"}
    /\ \A w \in 1..Len(wpc) : wpc[w] = "exit"

\* The per-region calls RunJSON has been asked for.
RegionCalls ==
    {call \in BagToSet(execCalls) : ~call.list}

\* C20: an all-regions aggregation issues exactly one region-enumeration
\* call; no per-region call starts before that call has returned; no region
\* is ever called twice; a region flagged not-opted-in or without a name is
\* never called; and by the time all workers have finished every other
\* enumerated region has been called exactly once.
C20_OneCallPerRegion ==
    Aggregating
    => /\ CopiesIn(ListCall, execCalls) = 1
       /\ RegionCalls # {} => Enumerated /\ ~EnumerationFailed
       /\ \A call \in RegionCalls : CopiesIn(call, execCalls) = 1
       /\ Enumerated /\ ~EnumerationFailed
          => /\ \A e \in Entries :
                   LeftOut(e) => RegionCall(e.RegionName) \notin RegionCalls
             /\ \A call \in RegionCalls :
                   \E e \in Entries : ~LeftOut(e) /\ call.region = e.RegionName
       /\ AllWorkersFinished
          => \A e \in Entries :
                ~LeftOut(e) => CopiesIn(RegionCall(e.RegionName), execCalls) = 1

\* Every worker of an account with two usable regions, next to entries
\* without a name and not opted in, has finished.
C20_Witness ==
    /\ Aggregating
    /\ AllWorkersFinished
    /\ Cardinality(RegionCalls) = 2
    /\ \E e \in Entries : e.RegionName = <<>>
    /\ \E e \in Entries : e.RegionName # <<>> /\ LeftOut(e)

\* C21: Cache.Get leaves the stored entries unchanged in every case, an
\* expired entry included; the map changes only by a Set, which writes one
\* key, or by a Clear, which empties it, and an entry leaves the map only
\* by a Clear.
C21_GetLeavesEntries ==
    [][/\ got' # got => data' = data
       /\ data' # data
          => \/ data' = CacheClear
             \/ \E key \in CacheKeys, value \in CacheValues :
                   data' = CacheSet(data, key, value, now, ttl)
       /\ \A key \in DOMAIN data :
             \/ data' = CacheClear
             \/ key \in DOMAIN data' /\ data'[key].expiresAt >= data[key].expiresAt]_vars

\* A Get found an entry expired, and the entry is in the map as it was set.
C21_Witness ==
    /\ got.asked
    /\ ~got.found
    /\ got.key \in DOMAIN data
    /\ got.at > data[got.key].expiresAt
    /\ data[got.key].value = got.last.value
    /\ data[got.key].expiresAt = got.last.time + ttl

\* C22: after a cache clear has completed, a request never returns a value
\* that was fetched before the clear, also when the fetch was in flight at
\* the moment of the clear: a request that begins after the k-th clear and
\* is answered from the cache gets a value whose fetch returned after it.
C22_FreshAfterClear ==
    \A r \in DOMAIN reqs :
        (reqs[r].pc = "done" /\ reqs[r].hit)
        => reqs[r].from.fetched >= reqs[r].began

\* The requests that fetched for a key and stored what they got.
Stored(key) ==
    {r \in DOMAIN reqs :
        /\ reqs[r].pc = "done"
        /\ reqs[r].key = key
        /\ ~reqs[r].hit
        /\ reqs[r].err = Nil}

\* C23: when concurrent GetResources calls for one cache key all miss, each
\* performs its own fetch and its own Set and none waits for another (no
\* deadlock), each caller receives the result of its own fetch, a Set
\* changes the entry of no other key, and the entry of the key is the
\* complete result of one of the fetches, the one of the last Set, never a
\* mixture.
C23_RaceToPopulate ==
    /\ \A r \in DOMAIN reqs :
          /\ reqs[r].pc = "get" => ENABLED Lookup(r)
          /\ reqs[r].pc = "fetch" => ENABLED (Execute(r) \/ InnerReturn(r))
          /\ reqs[r].pc = "set" => ENABLED Store(r)
          /\ r \in Stored(reqs[r].key)
             => /\ reqs[r].res = reqs[r].own
                /\ reqs[r].calls = CallsOf(reqs[r].service, reqs[r].region)
                /\ reqs[r].key \in DOMAIN data
    /\ \A key \in DOMAIN data :
          /\ \E r \in Stored(key) : data[key].value = reqs[r].own
          /\ storedBy[key].by \in Stored(key)
          /\ data[key].value = reqs[storedBy[key].by].own

\* Two requests for one key both missed and fetched different results; the
\* entry is the result of the second to store.
C23_Witness ==
    /\ {1, 2} \subseteq Stored(reqs[1].key)
    /\ reqs[1].own # reqs[2].own
    /\ reqs[1].fetched = reqs[2].fetched
    /\ storedBy[reqs[1].key].by = 1
    /\ data[reqs[1].key].value = reqs[1].own
    /\ \E key \in DOMAIN data : key # reqs[1].key

\* C24: SetActiveProfile(id) succeeds, making id the active id, exactly when
\* id is "system" and system credentials are available or id is the id of
\* a stored custom profile; in every other case it returns an error and the
\* active id, the profile map and the store file are unchanged.
C24_SelectAllOrNothing ==
    [][mgrRet'.op = "select"
       => IF \/ mgrRet'.id = SystemID /\ systemAvailable
             \/ mgrRet'.id # SystemID /\ mgrRet'.id \in DOMAIN profiles
          THEN /\ mgrRet'.err = Nil
               /\ activeID' = mgrRet'.id
               /\ UNCHANGED <<profiles, nextID>>
          ELSE /\ mgrRet'.err # Nil
               /\ UNCHANGED <<profiles, activeID, nextID, store>>]_vars

\* An id no stored profile has was refused while a custom profile is active
\* and saved.
C24_Witness ==
    /\ mgrRet.op = "select"
    /\ mgrRet.err = ErrNotFound(mgrRet.id)
    /\ mgrRet.id \notin DOMAIN profiles
    /\ activeID \in DOMAIN profiles
    /\ store.exists

\* C25: every value cachedResourceService stores under a key whose profile
\* component is P was produced entirely by executor calls that ran with the
\* credentials of P, also when the active profile is switched or a profile
\* is added between the computation of the key and the calls.
C25_StoredUnderOwnProfile ==
    \A key \in DOMAIN data :
        \A p \in storedBy[key].ran : p = storedBy[key].profile

\* The requests whose inner GetResources returned an error.
Failed ==
    {r \in DOMAIN reqs : reqs[r].pc = "done" /\ reqs[r].err # Nil}

\* C29: a failed fetch is never cached: when the inner GetResources returns
\* an error the cache is left as it was and the request returns an empty
\* value with the error; no entry holds anything but the result of a fetch
\* that succeeded, and a request is answered from the cache only with such
\* a result, so that a request for the key of a failure fetches anew unless
\* another fetch for the key has succeeded.
C29_FailureNotCached ==
    [][/\ \A r \in DOMAIN reqs :
             (reqs[r].pc = "fetch" /\ reqs'[r].pc = "done")
             => /\ data' = data
                /\ reqs'[r].err # Nil
                /\ reqs'[r].res = EmptyResources
                /\ ~reqs'[r].hit
       /\ \A key \in DOMAIN data' :
             \E q \in DOMAIN reqs :
                /\ reqs'[q].key = key
                /\ reqs'[q].err = Nil
                /\ reqs'[q].calls = CallsOf(reqs'[q].service, reqs'[q].region)
                /\ data'[key].value = reqs'[q].own
       /\ \A r \in DOMAIN reqs :
             reqs'[r].hit
             => /\ reqs'[r].err = Nil
                /\ \E q \in DOMAIN reqs :
                      /\ reqs'[q].key = reqs'[r].key
                      /\ reqs'[q].pc = "done"
                      /\ ~reqs'[q].hit
                      /\ reqs'[q].err = Nil
                      /\ reqs'[r].res = reqs'[q].own]_vars

\* A fetch failed and left no entry; the next request for the key fetched
\* anew and stored, and a third was answered with that.
C29_Witness ==
    /\ 1 \in Failed
    /\ reqs[1].res = EmptyResources
    /\ reqs[2].key = reqs[1].key
    /\ 2 \in Stored(reqs[2].key)
    /\ storedBy[reqs[1].key].by = 2
    /\ reqs[3].hit
    /\ reqs[3].key = reqs[1].key
    /\ reqs[3].res = reqs[2].own

\* The workers that have been started and have not finished.
Running ==
    {w \in 1..Len(wpc) : wpc[w] \in {"sem", "exec", "send", "release", "wgdone"}}

\* C26: no worker of an all-regions aggregation blocks forever: a worker
\* that is to send finds room in the result channel, whose capacity is the
\* number of regions, and every worker that was started finishes in the
\* end and has released its semaphore slot, also after the coordinator has
\* returned on an error that is not skippable.
C26_WorkersFinish ==
    /\ [](\A w \in 1..Len(wpc) :
            wpc[w] = "send" => ~closed /\ Len(resultsCh) < ChanCap)
    /\ <>[](/\ Running = {}
            /\ sem = 0
            /\ pc \in {"collect", "done"} => spawned = Len(regions))

\* The coordinator returned a region's error while another worker's call
\* was running; that worker has sent its result, which nobody receives, and
\* has finished.
C26_Witness ==
    /\ pc = "done"
    /\ ret.err # Nil
    /\ Len(wpc) > 1
    /\ Running = {}
    /\ sem = 0
    /\ Len(resultsCh) > 0
    /\ closed

\* C27: when every executor call returns, under a fair scheduler every
\* all-regions aggregation call returns to its caller in the end, with a
\* result or with an error, for an account that lists no region and for one
\* that lists more regions than the semaphore holds.
C27_CallReturns ==
    <>[](pc = "done" /\ ret.returned)

\* The call of an account with more regions than the semaphore holds has
\* returned its result.
C27_Witness ==
    /\ pc = "done"
    /\ ret.returned
    /\ ret.err = Nil
    /\ Len(regions) > maxConcurrent
    /\ Len(ret.res.Records) > maxConcurrent

\* C28: the result channel is closed by the one closing goroutine in its one
\* step, and it is closed only when every region's worker has been started,
\* has sent its one result and has finished; no worker has sent on the
\* closed channel, and the channel and the skipped list together hold no
\* more results than workers have sent.
C28_ClosedOnceAfterSends ==
    /\ closed <=> closer = "exit"
    /\ closed => /\ spawned = Len(regions)
                 /\ Len(wpc) = Len(regions)
                 /\ \A w \in 1..Len(wpc) : wpc[w] = "exit"
    /\ ~panicked
    /\ Len(resultsCh) + Len(skipped) <= Cardinality(Sent)
    /\ Len(resultsCh) <= ChanCap

\* The channel has been closed after two or more workers sent, one of them a
\* skipped failure, and the coordinator has drained it.
C28_Witness ==
    /\ closed
    /\ Len(wpc) > 1
    /\ Len(skipped) > 0
    /\ Len(all) > 0
    /\ Len(resultsCh) = 0
    /\ \A w \in 1..Len(wpc) : wpc[w] = "exit"

\* C30: in every state of the profile manager, after NewManager has loaded
\* any store file and after any AddAndActivateProfile and SetActiveProfile,
\* the stored active id is empty, or "system" with system credentials
\* available, or the id of a profile in the map, and the id ActiveID reports
\* names the credentials ActiveEnv applies.
C30_ActiveIDNamesCredentials ==
    /\ \/ activeID = <<>>
       \/ activeID = SystemID /\ systemAvailable
       \/ activeID \in DOMAIN profiles
    /\ ActiveID # <<>> => ActiveEnvOf(activeID, profiles) = ActiveID

====
